---- MODULE Spec2Model ----
(***************************************************************************)
(* Battleship game session engine: the room registry (GameRoomModel), the  *)
(* board rules (Utils, GameService) and the socket protocol handlers       *)
(* (GameSocketHandler), as a state machine.                                *)
(***************************************************************************)
EXTENDS Integers, Sequences, FiniteSets, TLC

\* ---------------------------------------------------------------- bounds
\* Clock ticks the model lets pass (one tick is TickMinutes minutes).
MaxTicks == 1
\* Out-of-band cleanup timers that can be pending at once.
MaxTimers == 1

\* ------------------------------------------------------ program constants
BoardSize == 10
TickMinutes == 60
DefaultEmptyRoomTimeout == 30
DefaultFinishedGameTimeout == 60
DefaultInactiveRoomTimeout == 120

\* JavaScript null / undefined
Null == "null"
\* An identity with no stored game (user.currentGame undefined).
NoGame == [roomId |-> Null, playerId |-> Null]

\* Values Utils.generateRoomId / Utils.generatePlayerId can return.
RoomIds == {"R1"}
PlayerIds == {"p1", "p2"}
Users == {"U1", "U2"}
Sockets == {"S1", "S2", "S3"}

\* The connections of the two players; S3 is a further connection of the
\* first identity (another tab, or the page loaded again).
GameSockets == {"S1", "S2"}

\* The identity whose auth_token cookie each connection carries.
SocketCookie == [s \in Sockets |-> IF s = "S2" THEN "U2" ELSE "U1"]

Pos(x, y) == [x |-> x, y |-> y]

\* ------------------------------------------------------------------ Utils
validateCoordinates(x, y, boardSize) ==
    x >= 0 /\ x < boardSize /\ y >= 0 /\ y < boardSize

positionsEqual(pos1, pos2) == pos1.x = pos2.x /\ pos1.y = pos2.y

shipsOverlap(ship1, ship2) ==
    \E i \in DOMAIN ship1.positions : \E j \in DOMAIN ship2.positions :
        positionsEqual(ship1.positions[i], ship2.positions[j])

hasOverlappingShips(ships) ==
    \E i \in DOMAIN ships : \E j \in DOMAIN ships :
        j > i /\ shipsOverlap(ships[i], ships[j])

\* Index of the first ship with a cell at position, 0 for null.
findShipAtPosition(ships, position) ==
    LET found == {i \in DOMAIN ships :
                    \E k \in DOMAIN ships[i].positions :
                        positionsEqual(ships[i].positions[k], position)}
    IN IF found = {} THEN 0
       ELSE CHOOSE i \in found : \A j \in found : i <= j

isShipDestroyed(ship, hitPositions) ==
    \A k \in DOMAIN ship.positions :
        \E hitPos \in hitPositions : positionsEqual(ship.positions[k], hitPos)

areAllShipsDestroyed(ships) == \A i \in DOMAIN ships : ships[i].isDestroyed

validateShipLength(ship) == Len(ship.positions) = ship.length

validateAllShipLengths(ships) ==
    \A i \in DOMAIN ships : validateShipLength(ships[i])

\* The comparator of validateShipContinuity: by x, then by y.
posBefore(a, b) == IF a.x # b.x THEN a.x < b.x ELSE a.y < b.y

RECURSIVE insertSorted(_, _)
insertSorted(sorted, p) ==
    IF sorted = <<>> THEN <<p>>
    ELSE IF posBefore(p, Head(sorted)) THEN <<p>> \o sorted
    ELSE <<Head(sorted)>> \o insertSorted(Tail(sorted), p)

RECURSIVE sortPositions(_)
sortPositions(ps) ==
    IF ps = <<>> THEN <<>>
    ELSE insertSorted(sortPositions(SubSeq(ps, 1, Len(ps) - 1)), ps[Len(ps)])

validateShipContinuity(ship) ==
    IF Len(ship.positions) <= 1 THEN TRUE
    ELSE LET sortedPositions == sortPositions(ship.positions)
             isHorizontal ==
                 \A index \in DOMAIN sortedPositions :
                     index = 1 \/
                     ( sortedPositions[index].y = sortedPositions[1].y /\
                       sortedPositions[index].x = sortedPositions[index - 1].x + 1 )
             isVertical ==
                 \A index \in DOMAIN sortedPositions :
                     index = 1 \/
                     ( sortedPositions[index].x = sortedPositions[1].x /\
                       sortedPositions[index].y = sortedPositions[index - 1].y + 1 )
         IN isHorizontal \/ isVertical

getRequiredShips ==
    << [name |-> "Carrier", length |-> 5, count |-> 1],
       [name |-> "Battleship", length |-> 4, count |-> 1],
       [name |-> "Cruiser", length |-> 3, count |-> 1],
       [name |-> "Submarine", length |-> 3, count |-> 1],
       [name |-> "Destroyer", length |-> 2, count |-> 1] >>

validateRequiredShips(ships) ==
    LET required == getRequiredShips
        shipCounts(len) == Cardinality({i \in DOMAIN ships : ships[i].length = len})
    IN \A r \in DOMAIN required :
           shipCounts(required[r].length) >= required[r].count

\* ------------------------------------------------------------ GameService
validateShipPlacement(ships) ==
    IF \E i \in DOMAIN ships : \E k \in DOMAIN ships[i].positions :
           ~validateCoordinates(ships[i].positions[k].x, ships[i].positions[k].y, BoardSize)
    THEN FALSE
    ELSE IF hasOverlappingShips(ships) THEN FALSE
    ELSE IF ~validateAllShipLengths(ships) THEN FALSE
    ELSE IF \E i \in DOMAIN ships : ~validateShipContinuity(ships[i]) THEN FALSE
    ELSE IF ~validateRequiredShips(ships) THEN FALSE
    ELSE TRUE

\* A board is the set of marked cells with their mark ("miss" or a ship id);
\* every other cell of the 10x10 array is null.
initializeBoard == << >>

setCell(board, position, mark) ==
    [c \in DOMAIN board \cup {position} |->
        IF c = position THEN mark ELSE board[c]]

\* processMove mutates targetBoard and ships in place: the result carries both.
processMove(targetBoard, ships, x, y) ==
    LET position == Pos(x, y)
        hitShip == findShipAtPosition(ships, position)
    IN IF hitShip = 0
       THEN [board |-> setCell(targetBoard, position, "miss"), ships |-> ships,
             hit |-> FALSE, shipDestroyed |-> FALSE, gameEnded |-> FALSE]
       ELSE LET board2 == setCell(targetBoard, position, ships[hitShip].id)
                hitPositions == {c \in DOMAIN board2 : board2[c] = ships[hitShip].id}
                shipDestroyed == isShipDestroyed(ships[hitShip], hitPositions)
                ships2 == IF shipDestroyed
                          THEN [ships EXCEPT ![hitShip].isDestroyed = TRUE]
                          ELSE ships
            IN [board |-> board2, ships |-> ships2, hit |-> TRUE,
                shipDestroyed |-> shipDestroyed,
                gameEnded |-> areAllShipsDestroyed(ships2)]

\* ---------------------------------------------------------- GameRoomModel
\* The registry is a Map: a sequence of rooms in insertion order, one per id.
roomIndex(rms, id) ==
    LET found == {i \in DOMAIN rms : rms[i].id = id}
    IN IF found = {} THEN 0 ELSE CHOOSE i \in found : TRUE

hasRoom(rms, id) == roomIndex(rms, id) # 0

getRoom(rms, id) == rms[roomIndex(rms, id)]

\* Map.set: a new key is appended, an existing key keeps its place.
setRoom(rms, room) ==
    IF hasRoom(rms, room.id)
    THEN [rms EXCEPT ![roomIndex(rms, room.id)] = room]
    ELSE Append(rms, room)

removeAt(seq, i) == SubSeq(seq, 1, i - 1) \o SubSeq(seq, i + 1, Len(seq))

createRoom(rms, uniqueId, createdAt) ==
    setRoom(rms, [id |-> uniqueId, players |-> << >>, currentTurn |-> Null,
                  gameState |-> "waiting", winner |-> Null,
                  createdAt |-> createdAt])

\* addPlayerToRoom without the check for a seat of the same id.
addPlayerToRoomNoIdCheck(rms, roomId, player) ==
    IF ~hasRoom(rms, roomId) THEN [ok |-> FALSE, rooms |-> rms]
    ELSE LET room == getRoom(rms, roomId) IN
         IF Len(room.players) >= 2 THEN [ok |-> FALSE, rooms |-> rms]
         ELSE LET pushed == Append(room.players, player)
                  room2 == [room EXCEPT
                              !.players = pushed,
                              !.gameState =
                                  IF Len(pushed) = 2 /\ room.gameState = "waiting"
                                  THEN "setup" ELSE room.gameState]
              IN [ok |-> TRUE, rooms |-> setRoom(rms, room2)]

\* addPlayerToRoom moving to setup as soon as a waiting room has a seat.
addPlayerToRoomSetupOnFirstSeat(rms, roomId, player) ==
    IF ~hasRoom(rms, roomId) THEN [ok |-> FALSE, rooms |-> rms]
    ELSE LET room == getRoom(rms, roomId) IN
         IF Len(room.players) >= 2 THEN [ok |-> FALSE, rooms |-> rms]
         ELSE IF \E i \in DOMAIN room.players : room.players[i].id = player.id
         THEN [ok |-> FALSE, rooms |-> rms]
         ELSE LET pushed == Append(room.players, player)
                  room2 == [room EXCEPT
                              !.players = pushed,
                              !.gameState =
                                  IF Len(pushed) >= 1 /\ room.gameState = "waiting"
                                  THEN "setup" ELSE room.gameState]
              IN [ok |-> TRUE, rooms |-> setRoom(rms, room2)]

addPlayerToRoom(rms, roomId, player) ==
    IF ~hasRoom(rms, roomId) THEN [ok |-> FALSE, rooms |-> rms]
    ELSE LET room == getRoom(rms, roomId) IN
         IF Len(room.players) >= 2 THEN [ok |-> FALSE, rooms |-> rms]
         ELSE IF \E i \in DOMAIN room.players : room.players[i].id = player.id
         THEN [ok |-> FALSE, rooms |-> rms]
         ELSE LET pushed == Append(room.players, player)
                  room2 == [room EXCEPT
                              !.players = pushed,
                              !.gameState =
                                  IF Len(pushed) = 2 /\ room.gameState = "waiting"
                                  THEN "setup" ELSE room.gameState]
              IN [ok |-> TRUE, rooms |-> setRoom(rms, room2)]

\* removePlayerFromRoom without the reset of the game state.
removePlayerFromRoomNoReset(rms, roomId, playerId) ==
    IF ~hasRoom(rms, roomId) THEN [ok |-> FALSE, rooms |-> rms]
    ELSE LET room == getRoom(rms, roomId)
             found == {i \in DOMAIN room.players : room.players[i].id = playerId}
         IN IF found = {} THEN [ok |-> FALSE, rooms |-> rms]
            ELSE LET playerIndex == CHOOSE i \in found : \A j \in found : i <= j
                     spliced == [room EXCEPT !.players = removeAt(room.players, playerIndex)]
                 IN [ok |-> TRUE, rooms |-> setRoom(rms, spliced)]

removePlayerFromRoom(rms, roomId, playerId) ==
    IF ~hasRoom(rms, roomId) THEN [ok |-> FALSE, rooms |-> rms]
    ELSE LET room == getRoom(rms, roomId)
             found == {i \in DOMAIN room.players : room.players[i].id = playerId}
         IN IF found = {} THEN [ok |-> FALSE, rooms |-> rms]
            ELSE LET playerIndex == CHOOSE i \in found : \A j \in found : i <= j
                     spliced == [room EXCEPT !.players = removeAt(room.players, playerIndex)]
                     room2 == IF room.gameState # "waiting"
                              THEN [spliced EXCEPT !.gameState = "waiting",
                                                   !.currentTurn = Null,
                                                   !.winner = Null]
                              ELSE spliced
                 IN [ok |-> TRUE, rooms |-> setRoom(rms, room2)]

getAllRooms(rms) == rms

deleteRoom(rms, id) ==
    IF ~hasRoom(rms, id) THEN rms ELSE removeAt(rms, roomIndex(rms, id))

\* cleanupRule whose first rule takes a finished room only when it has no seats.
cleanupRuleFinishedNeedsNoSeats(room, nowMinutes, emptyRoomTimeout, finishedGameTimeout, inactiveRoomTimeout) ==
    LET roomAgeMinutes == nowMinutes - room.createdAt IN
    IF room.gameState = "finished" /\ Len(room.players) = 0
       /\ roomAgeMinutes >= finishedGameTimeout
    THEN "finished"
    ELSE IF room.gameState \in {"waiting", "setup"} /\ Len(room.players) = 0
            /\ roomAgeMinutes >= inactiveRoomTimeout
    THEN "inactive"
    ELSE IF Len(room.players) = 0 /\ room.gameState # "finished"
            /\ roomAgeMinutes >= emptyRoomTimeout
    THEN "empty"
    ELSE "keep"

\* cleanupRule whose third rule passes over playing rooms.
cleanupRuleSparesPlaying(room, nowMinutes, emptyRoomTimeout, finishedGameTimeout, inactiveRoomTimeout) ==
    LET roomAgeMinutes == nowMinutes - room.createdAt IN
    IF room.gameState = "finished" /\ roomAgeMinutes >= finishedGameTimeout
    THEN "finished"
    ELSE IF room.gameState \in {"waiting", "setup"} /\ Len(room.players) = 0
            /\ roomAgeMinutes >= inactiveRoomTimeout
    THEN "inactive"
    ELSE IF Len(room.players) = 0 /\ room.gameState \notin {"finished", "playing"}
            /\ roomAgeMinutes >= emptyRoomTimeout
    THEN "empty"
    ELSE "keep"

\* cleanupRule whose third rule does not look at the seats.
cleanupRuleAnySeatCount(room, nowMinutes, emptyRoomTimeout, finishedGameTimeout, inactiveRoomTimeout) ==
    LET roomAgeMinutes == nowMinutes - room.createdAt IN
    IF room.gameState = "finished" /\ roomAgeMinutes >= finishedGameTimeout
    THEN "finished"
    ELSE IF room.gameState \in {"waiting", "setup"} /\ Len(room.players) = 0
            /\ roomAgeMinutes >= inactiveRoomTimeout
    THEN "inactive"
    ELSE IF room.gameState # "finished" /\ roomAgeMinutes >= emptyRoomTimeout
    THEN "empty"
    ELSE "keep"

\* cleanupRule that tries the empty rule before the inactive one.
cleanupRuleEmptyFirst(room, nowMinutes, emptyRoomTimeout, finishedGameTimeout, inactiveRoomTimeout) ==
    LET roomAgeMinutes == nowMinutes - room.createdAt IN
    IF room.gameState = "finished" /\ roomAgeMinutes >= finishedGameTimeout
    THEN "finished"
    ELSE IF Len(room.players) = 0 /\ room.gameState # "finished"
            /\ roomAgeMinutes >= emptyRoomTimeout
    THEN "empty"
    ELSE IF room.gameState \in {"waiting", "setup"} /\ Len(room.players) = 0
            /\ roomAgeMinutes >= inactiveRoomTimeout
    THEN "inactive"
    ELSE "keep"

\* cleanupRule with thresholds a room has to be older than.
cleanupRuleStrict(room, nowMinutes, emptyRoomTimeout, finishedGameTimeout, inactiveRoomTimeout) ==
    LET roomAgeMinutes == nowMinutes - room.createdAt IN
    IF room.gameState = "finished" /\ roomAgeMinutes > finishedGameTimeout
    THEN "finished"
    ELSE IF room.gameState \in {"waiting", "setup"} /\ Len(room.players) = 0
            /\ roomAgeMinutes > inactiveRoomTimeout
    THEN "inactive"
    ELSE IF Len(room.players) = 0 /\ room.gameState # "finished"
            /\ roomAgeMinutes > emptyRoomTimeout
    THEN "empty"
    ELSE "keep"

\* Which of the three removal rules of cleanupRooms takes a room:
\* "finished", "inactive", "empty", or "keep".
cleanupRule(room, nowMinutes, emptyRoomTimeout, finishedGameTimeout, inactiveRoomTimeout) ==
    LET roomAgeMinutes == nowMinutes - room.createdAt IN
    IF room.gameState = "finished" /\ roomAgeMinutes >= finishedGameTimeout
    THEN "finished"
    ELSE IF room.gameState \in {"waiting", "setup"} /\ Len(room.players) = 0
            /\ roomAgeMinutes >= inactiveRoomTimeout
    THEN "inactive"
    ELSE IF Len(room.players) = 0 /\ room.gameState # "finished"
            /\ roomAgeMinutes >= emptyRoomTimeout
    THEN "empty"
    ELSE "keep"

RECURSIVE keepRooms(_, _, _, _, _)
keepRooms(rms, nowMinutes, e, f, i) ==
    IF rms = << >> THEN << >>
    ELSE LET rest == keepRooms(Tail(rms), nowMinutes, e, f, i) IN
         IF cleanupRule(Head(rms), nowMinutes, e, f, i) = "keep"
         THEN <<Head(rms)>> \o rest ELSE rest

\* An option the caller leaves out (undefined).
Absent == -1

\* options: a record whose fields are a number of minutes, or Absent.
cleanupRooms(rms, nowMinutes, options) ==
    LET emptyRoomTimeout ==
            IF options.emptyRoomTimeout = Absent THEN DefaultEmptyRoomTimeout
            ELSE options.emptyRoomTimeout
        finishedGameTimeout ==
            IF options.finishedGameTimeout = Absent THEN DefaultFinishedGameTimeout
            ELSE options.finishedGameTimeout
        inactiveRoomTimeout ==
            IF options.inactiveRoomTimeout = Absent THEN DefaultInactiveRoomTimeout
            ELSE options.inactiveRoomTimeout
        allRooms == getAllRooms(rms)
        rule(k) == cleanupRule(allRooms[k], nowMinutes, emptyRoomTimeout,
                               finishedGameTimeout, inactiveRoomTimeout)
        remaining == keepRooms(allRooms, nowMinutes, emptyRoomTimeout,
                               finishedGameTimeout, inactiveRoomTimeout)
    IN [rooms |-> remaining,
        emptyRoomsRemoved |-> Cardinality({k \in DOMAIN allRooms : rule(k) = "empty"}),
        finishedGamesRemoved |-> Cardinality({k \in DOMAIN allRooms : rule(k) = "finished"}),
        inactiveRoomsRemoved |-> Cardinality({k \in DOMAIN allRooms : rule(k) = "inactive"}),
        totalRoomsRemaining |-> Len(remaining)]

NoOptions == [emptyRoomTimeout |-> Absent, finishedGameTimeout |-> Absent,
              inactiveRoomTimeout |-> Absent]

\* ------------------------------------------------------- client inputs
Run(x, y0, n) == [k \in 1..n |-> Pos(x, y0 + k - 1)]

NewShip(id, length, positions) ==
    [id |-> id, length |-> length, positions |-> positions, isDestroyed |-> FALSE]

\* The fleet the setup screen submits: five ships, none destroyed.
ValidFleet ==
    << NewShip("carrier", 5, Run(0, 0, 5)),
       NewShip("battleship", 4, Run(1, 0, 4)),
       NewShip("cruiser", 3, Run(2, 0, 3)),
       NewShip("submarine", 3, Run(3, 0, 3)),
       NewShip("destroyer", 2, Run(4, 0, 2)) >>

\* A fleet validateShipPlacement rejects (the ships overlap).
OverlappingFleet ==
    [ValidFleet EXCEPT ![2] = NewShip("battleship", 4, Run(0, 3, 4))]

FleetInputs == {ValidFleet, OverlappingFleet}

\* Ship i of ValidFleet laid along row 9 - i instead of along its column.
Across(i) ==
    [ValidFleet[i] EXCEPT
        !.positions = [k \in 1..ValidFleet[i].length |-> Pos(k - 1, 9 - i)]]

\* Ways a client can lay ship i of ValidFleet: as the setup screen does, along
\* a row, with its cells listed backwards, running off the board, on a
\* diagonal, with a gap before its last cell, or one cell short of its length.
ShipVariants(i) ==
    LET ship == ValidFleet[i]
        n == ship.length
        x == ship.positions[1].x
    IN { ship,
         Across(i),
         [ship EXCEPT !.positions = [k \in 1..n |-> ship.positions[n + 1 - k]]],
         [ship EXCEPT !.positions = Run(x, BoardSize + 1 - n, n)],
         [ship EXCEPT !.positions = [k \in 1..n |-> Pos(4 + k, 4 + k)]],
         [ship EXCEPT !.positions =
             [k \in 1..n |-> IF k = n THEN Pos(x, n) ELSE Pos(x, k - 1)]],
         [ship EXCEPT !.positions = SubSeq(ship.positions, 1, n - 1)] }

\* Ships a client can send on top of the five.
ExtraShips ==
    { NewShip("patrol", 1, <<Pos(9, 9)>>),
      NewShip("destroyer2", 2, Run(5, 0, 2)),
      NewShip("buoy", 0, << >>) }

\* The ships arrays a client can send with place-ships.
FleetCandidates ==
    UNION {{[ValidFleet EXCEPT ![i] = v] : v \in ShipVariants(i)} :
              i \in DOMAIN ValidFleet}
      \cup {removeAt(ValidFleet, i) : i \in DOMAIN ValidFleet}
      \cup {Append(ValidFleet, extra) : extra \in ExtraShips}
      \cup {OverlappingFleet, << >>}

\* The order in which a client works through the opponent's board: the
\* destroyer, one cell of open water, the other ships, then open water again.
ShotPlan ==
    Run(4, 0, 2) \o <<Pos(9, 9)>> \o Run(3, 0, 3) \o Run(2, 0, 3)
        \o Run(1, 0, 4) \o Run(0, 0, 5) \o <<Pos(9, 8)>>

OutOfRangeShots == {Pos(0 - 1, 0), Pos(0, BoardSize)}

\* The coordinates a client following plan sends with make-move: the next
\* untried cell of its plan, the first cell of the plan again, or a
\* coordinate off the board.
Targets(player, plan) ==
    LET tried == player.hits \cup player.misses
        untried == {k \in DOMAIN plan : plan[k] \notin tried}
    IN (IF untried = {} THEN {}
        ELSE {plan[CHOOSE k \in untried : \A j \in untried : k <= j]})
       \cup {plan[1]} \cup OutOfRangeShots

\* --------------------------------------------------------------- state
VARIABLES
    rooms,          \* GameRoomModel.rooms
    now,            \* the clock, in minutes
    sockets,        \* per connection: "new", "open" or "closed"
    socketUserId,   \* socket.userId of each connection, Null until authenticated
    userSockets,    \* GameSocketHandler.userSockets: userId -> socketId
    socketUsers,    \* GameSocketHandler.socketUsers: socketId -> userId
    cleanupTimers,  \* number of pending out-of-band cleanup timers
    pendingReady,   \* player-ready handlers suspended at their first await
    currentGame     \* the stored user.currentGame of each identity, or NoGame

vars == <<rooms, now, sockets, socketUserId, userSockets, socketUsers,
          cleanupTimers, pendingReady, currentGame>>

Init ==
    /\ rooms = << >>
    /\ now = 0
    /\ sockets = [s \in Sockets |-> "new"]
    /\ socketUserId = [s \in Sockets |-> Null]
    /\ userSockets = [u \in Users |-> Null]
    /\ socketUsers = [s \in Sockets |-> Null]
    /\ cleanupTimers = 0
    /\ pendingReady = {}
    /\ currentGame = [u \in Users |-> NoGame]

\* Index in room.players of the first seat of userId, 0 when there is none
\* (room.players.find((p) => p.userId === socket.userId)).
findPlayerByUser(room, userId) ==
    LET found == {i \in DOMAIN room.players : room.players[i].userId = userId}
    IN IF found = {} THEN 0 ELSE CHOOSE i \in found : \A j \in found : i <= j

\* Index of the first seat whose id differs from playerId, 0 when none
\* (room.players.find((p) => p.id !== player.id)).
findOpponent(room, playerId) ==
    LET found == {i \in DOMAIN room.players : room.players[i].id # playerId}
    IN IF found = {} THEN 0 ELSE CHOOSE i \in found : \A j \in found : i <= j

\* The seat join-room builds for the caller.
NewPlayer(id, userId, socketId) ==
    [id |-> id, userId |-> userId, socketId |-> socketId, isReady |-> FALSE,
     board |-> initializeBoard, ships |-> << >>, hits |-> {}, misses |-> {}]

\* A room that leaves the Map takes its suspended handlers out of sight:
\* they go on to change an object the registry no longer holds.
livePending(pend, rms) == {c \in pend : hasRoom(rms, c.roomId)}

\* seated without the demand that the connection is authenticated.
seatedAnyCaller(s, roomId) ==
    /\ hasRoom(rooms, roomId)
    /\ findPlayerByUser(getRoom(rooms, roomId), socketUserId[s]) # 0

\* True when connection s is authenticated and its identity has a seat in roomId.
seated(s, roomId) ==
    /\ socketUserId[s] # Null
    /\ hasRoom(rooms, roomId)
    /\ findPlayerByUser(getRoom(rooms, roomId), socketUserId[s]) # 0

\* ------------------------------------------------------------ UserService
\* updateUserGameState: the game is stored when userId names a user. The write
\* is taken at the step of the handler that awaits it.
setGameState(games, userId, roomId, playerId) ==
    IF userId \in Users
    THEN [games EXCEPT ![userId] = [roomId |-> roomId, playerId |-> playerId]]
    ELSE games

clearGameState(games, userId) ==
    IF userId \in Users THEN [games EXCEPT ![userId] = NoGame] ELSE games

\* for (const roomPlayer of room.players) await updateUserGameState(...)
RECURSIVE setGameStates(_, _, _)
setGameStates(games, roomId, players) ==
    IF players = << >> THEN games
    ELSE setGameStates(
             setGameState(games, Head(players).userId, roomId, Head(players).id),
             roomId, Tail(players))

\* ------------------------------------------------------------ connections
Connect(s) ==
    /\ sockets[s] = "new"
    /\ sockets' = [sockets EXCEPT ![s] = "open"]
    /\ UNCHANGED <<rooms, now, socketUserId, userSockets, socketUsers,
                   cleanupTimers, pendingReady, currentGame>>

\* attemptUserReconnection that also takes the seat's ready flag back.
attemptUserReconnectionNotReady(rms, s, game) ==
    IF game = NoGame \/ ~hasRoom(rms, game.roomId) THEN rms
    ELSE LET room == getRoom(rms, game.roomId)
             found == {i \in DOMAIN room.players : room.players[i].id = game.playerId}
         IN IF found = {} THEN rms
            ELSE LET pi == CHOOSE i \in found : \A j \in found : i <= j
                 IN setRoom(rms, [room EXCEPT !.players[pi].socketId = s,
                                              !.players[pi].isReady = FALSE])

\* The registry after attemptUserReconnection for connection s of an identity
\* whose stored game is game: the stored seat, when its room still holds it, is
\* given the connection.
attemptUserReconnection(rms, s, game) ==
    IF game = NoGame \/ ~hasRoom(rms, game.roomId) THEN rms
    ELSE LET room == getRoom(rms, game.roomId)
             found == {i \in DOMAIN room.players : room.players[i].id = game.playerId}
         IN IF found = {} THEN rms
            ELSE LET pi == CHOOSE i \in found : \A j \in found : i <= j
                 IN setRoom(rms, [room EXCEPT !.players[pi].socketId = s])

\* authenticate: the token of the connection's cookie verifies, or it does not.
Authenticate(s, valid) ==
    /\ sockets[s] = "open"
    /\ IF ~valid
       THEN UNCHANGED <<rooms, socketUserId, userSockets, socketUsers>>
       ELSE LET user == SocketCookie[s] IN
            /\ socketUserId' = [socketUserId EXCEPT ![s] = user]
            /\ userSockets' = [userSockets EXCEPT ![user] = s]
            /\ socketUsers' = [socketUsers EXCEPT ![s] = user]
            /\ rooms' = attemptUserReconnection(rooms, s, currentGame[user])
    /\ UNCHANGED <<now, sockets, cleanupTimers, pendingReady, currentGame>>

\* ---------------------------------------------------------------- join-room
\* The error of the joined-room event the caller is answered with, "none"
\* when the answer reports success.
joinVerdict(s, roomId, playerId) ==
    IF socketUserId[s] = Null THEN "Authentication required"
    ELSE IF ~addPlayerToRoom(rooms, roomId,
                             NewPlayer(playerId, socketUserId[s], s)).ok
    THEN "Could not join room"
    ELSE "none"

JoinRoom(s, roomId, playerId) ==
    /\ sockets[s] = "open"
    /\ IF socketUserId[s] = Null
       THEN UNCHANGED <<rooms, currentGame>>
       ELSE LET player == NewPlayer(playerId, socketUserId[s], s)
                success == addPlayerToRoom(rooms, roomId, player)
            IN /\ rooms' = success.rooms
               /\ currentGame' =
                      IF success.ok
                      THEN setGameState(currentGame, socketUserId[s], roomId, player.id)
                      ELSE currentGame
    /\ UNCHANGED <<now, sockets, socketUserId, userSockets, socketUsers,
                   cleanupTimers, pendingReady>>

\* --------------------------------------------------------------- leave-room
LeaveRoom(s, roomId) ==
    /\ sockets[s] = "open"
    /\ IF seated(s, roomId)
       THEN LET room == getRoom(rooms, roomId)
                player == room.players[findPlayerByUser(room, socketUserId[s])]
                success == removePlayerFromRoom(rooms, roomId, player.id)
            IN /\ rooms' = success.rooms
               /\ currentGame' =
                      IF success.ok
                      THEN clearGameState(currentGame, socketUserId[s])
                      ELSE currentGame
       ELSE UNCHANGED <<rooms, currentGame>>
    /\ UNCHANGED <<now, sockets, socketUserId, userSockets, socketUsers,
                   cleanupTimers, pendingReady>>

\* -------------------------------------------------------------- place-ships
PlaceShips(s, roomId, ships) ==
    /\ sockets[s] = "open"
    /\ IF socketUserId[s] = Null THEN UNCHANGED <<rooms, currentGame>>
       ELSE IF ~validateShipPlacement(ships) THEN UNCHANGED <<rooms, currentGame>>
       ELSE IF ~hasRoom(rooms, roomId) THEN UNCHANGED <<rooms, currentGame>>
       ELSE LET room == getRoom(rooms, roomId)
                pi == findPlayerByUser(room, socketUserId[s])
            IN IF pi # 0
               THEN /\ rooms' = setRoom(rooms, [room EXCEPT !.players[pi].ships = ships])
                    /\ currentGame' = setGameState(currentGame, socketUserId[s],
                                                   roomId, room.players[pi].id)
               ELSE UNCHANGED <<rooms, currentGame>>
    /\ UNCHANGED <<now, sockets, socketUserId, userSockets, socketUsers,
                   cleanupTimers, pendingReady>>

\* ------------------------------------------------------------- player-ready
\* Up to the first await: the caller's seat is marked ready.
PlayerReady(s, roomId) ==
    /\ sockets[s] = "open"
    /\ IF seated(s, roomId)
       THEN LET room == getRoom(rooms, roomId)
                pi == findPlayerByUser(room, socketUserId[s])
            IN /\ rooms' = setRoom(rooms, [room EXCEPT !.players[pi].isReady = TRUE])
               /\ pendingReady' = pendingReady \cup
                      {[roomId |-> roomId, playerId |-> room.players[pi].id]}
               /\ currentGame' = setGameState(currentGame, socketUserId[s],
                                              roomId, room.players[pi].id)
       ELSE UNCHANGED <<rooms, pendingReady, currentGame>>
    /\ UNCHANGED <<now, sockets, socketUserId, userSockets, socketUsers,
                   cleanupTimers>>

\* allReady without the demand for two seats.
allReadyAnySeatCount(room) ==
    /\ Len(room.players) >= 1
    /\ \A i \in DOMAIN room.players :
           room.players[i].isReady /\ Len(room.players[i].ships) > 0

allReady(room) ==
    /\ Len(room.players) = 2
    /\ \A i \in DOMAIN room.players :
           room.players[i].isReady /\ Len(room.players[i].ships) > 0

\* startIfReady giving the first turn to the seat that joined last.
startIfReadyLastSeat(room) ==
    IF allReady(room)
    THEN [room EXCEPT !.gameState = "playing",
                      !.currentTurn = room.players[Len(room.players)].id]
    ELSE room

\* The room after the both-ready check of the player-ready handler.
startIfReady(room) ==
    IF allReady(room)
    THEN [room EXCEPT !.gameState = "playing",
                      !.currentTurn = room.players[1].id]
    ELSE room

\* After the await: the both-ready check and the start of the game.
PlayerReadyResume(c) ==
    /\ c \in pendingReady
    /\ pendingReady' = pendingReady \ {c}
    /\ rooms' = setRoom(rooms, startIfReady(getRoom(rooms, c.roomId)))
    /\ currentGame' =
           IF allReady(getRoom(rooms, c.roomId))
           THEN setGameStates(currentGame, c.roomId, getRoom(rooms, c.roomId).players)
           ELSE currentGame
    /\ UNCHANGED <<now, sockets, socketUserId, userSockets, socketUsers,
                   cleanupTimers>>

\* ---------------------------------------------------------------- make-move
\* alreadyTargeted looking at the misses alone.
alreadyTargetedMissesOnly(player, x, y) == Pos(x, y) \in player.misses

\* player.hits[x] && player.hits[x][y] on the 10x10 arrays: false off the board.
alreadyTargeted(player, x, y) ==
    Pos(x, y) \in player.hits \/ Pos(x, y) \in player.misses

\* applyMove with the rule that a seat which hits shoots again.
applyMoveHitKeepsTurn(room, pi, oi, x, y) ==
    LET player == room.players[pi]
        opponent == room.players[oi]
        moveResult == processMove(opponent.board, opponent.ships, x, y)
        shot == [room EXCEPT
                    !.players[oi].board = moveResult.board,
                    !.players[oi].ships = moveResult.ships,
                    !.players[pi].hits =
                        IF moveResult.hit THEN @ \cup {Pos(x, y)} ELSE @,
                    !.players[pi].misses =
                        IF moveResult.hit THEN @ ELSE @ \cup {Pos(x, y)}]
    IN IF moveResult.gameEnded
       THEN [shot EXCEPT !.gameState = "finished", !.winner = player.id]
       ELSE IF moveResult.hit THEN shot
       ELSE [shot EXCEPT !.currentTurn = opponent.id]

\* The room after the accepted shot of seat pi at (x, y) on seat oi.
applyMove(room, pi, oi, x, y) ==
    LET player == room.players[pi]
        opponent == room.players[oi]
        moveResult == processMove(opponent.board, opponent.ships, x, y)
        shot == [room EXCEPT
                    !.players[oi].board = moveResult.board,
                    !.players[oi].ships = moveResult.ships,
                    !.players[pi].hits =
                        IF moveResult.hit THEN @ \cup {Pos(x, y)} ELSE @,
                    !.players[pi].misses =
                        IF moveResult.hit THEN @ ELSE @ \cup {Pos(x, y)}]
    IN IF moveResult.gameEnded
       THEN [shot EXCEPT !.gameState = "finished", !.winner = player.id]
       ELSE [shot EXCEPT !.currentTurn = opponent.id]

\* moveVerdict that lets either seat shoot, whoever holds the turn.
moveVerdictAnyTurn(s, roomId, x, y) ==
    IF socketUserId[s] = Null THEN "none"
    ELSE IF ~hasRoom(rooms, roomId) \/ getRoom(rooms, roomId).gameState # "playing"
    THEN "Invalid move"
    ELSE LET room == getRoom(rooms, roomId)
             pi == findPlayerByUser(room, socketUserId[s])
         IN IF pi = 0
            THEN "Not your turn"
            ELSE IF findOpponent(room, room.players[pi].id) = 0 THEN "none"
            ELSE IF alreadyTargeted(room.players[pi], x, y)
            THEN "Position already targeted"
            ELSE IF x < 0 \/ x >= 10 \/ y < 0 \/ y >= 10
            THEN "Invalid coordinates"
            ELSE "accepted"

\* The error of the move-result event the handler answers with, "none" when
\* it answers nothing, "accepted" when the shot is processed.
moveVerdict(s, roomId, x, y) ==
    IF socketUserId[s] = Null THEN "none"
    ELSE IF ~hasRoom(rooms, roomId) \/ getRoom(rooms, roomId).gameState # "playing"
    THEN "Invalid move"
    ELSE LET room == getRoom(rooms, roomId)
             pi == findPlayerByUser(room, socketUserId[s])
         IN IF pi = 0 \/ room.currentTurn # room.players[pi].id
            THEN "Not your turn"
            ELSE IF findOpponent(room, room.players[pi].id) = 0 THEN "none"
            ELSE IF alreadyTargeted(room.players[pi], x, y)
            THEN "Position already targeted"
            ELSE IF x < 0 \/ x >= 10 \/ y < 0 \/ y >= 10
            THEN "Invalid coordinates"
            ELSE "accepted"

MakeMove(s, roomId, x, y) ==
    /\ sockets[s] = "open"
    /\ IF moveVerdict(s, roomId, x, y) = "accepted"
       THEN LET room == getRoom(rooms, roomId)
                pi == findPlayerByUser(room, socketUserId[s])
                oi == findOpponent(room, room.players[pi].id)
                after == applyMove(room, pi, oi, x, y)
            IN /\ rooms' = setRoom(rooms, after)
               /\ currentGame' =
                      IF after.gameState = "finished"
                      THEN setGameStates(currentGame, roomId, after.players)
                      ELSE currentGame
       ELSE UNCHANGED <<rooms, currentGame>>
    /\ UNCHANGED <<now, sockets, socketUserId, userSockets, socketUsers,
                   cleanupTimers, pendingReady>>

\* ------------------------------------------------------------- chat-message
\* The handler reads the room and the caller's seat and writes nothing.
ChatMessage(s, roomId) ==
    /\ sockets[s] = "open"
    /\ UNCHANGED vars

\* ------------------------------------------------------------- restart-game
\* The handler gets as far as its "game-restarted" broadcast to the room.
gameRestartedSent(s, roomId) ==
    socketUserId[s] # Null /\ hasRoom(rooms, roomId)

\* resetPlayer that leaves the seat its fleet.
resetPlayerKeepsShips(player) ==
    [player EXCEPT !.isReady = FALSE, !.board = initializeBoard,
                   !.hits = {}, !.misses = {}]

resetPlayer(player) ==
    [player EXCEPT !.isReady = FALSE, !.board = initializeBoard,
                   !.ships = << >>, !.hits = {}, !.misses = {}]

RestartGame(s, roomId) ==
    /\ sockets[s] = "open"
    /\ IF socketUserId[s] # Null /\ hasRoom(rooms, roomId)
       THEN LET room == getRoom(rooms, roomId) IN
            /\ rooms' = setRoom(rooms,
                   [room EXCEPT !.gameState = "setup",
                                !.currentTurn = Null,
                                !.winner = Null,
                                !.players = [i \in DOMAIN room.players |->
                                                resetPlayer(room.players[i])]])
            /\ currentGame' = setGameStates(currentGame, roomId, room.players)
       ELSE UNCHANGED <<rooms, currentGame>>
    /\ UNCHANGED <<now, sockets, socketUserId, userSockets, socketUsers,
                   cleanupTimers, pendingReady>>

\* --------------------------------------------------------------- disconnect
\* The loop of the disconnect handler over the rooms listed in ids.
RECURSIVE removeUserFromRooms(_, _, _)
removeUserFromRooms(rms, ids, userId) ==
    IF ids = << >> THEN rms
    ELSE LET room == getRoom(rms, Head(ids))
             pi == findPlayerByUser(room, userId)
             after == IF pi # 0
                      THEN removePlayerFromRoom(rms, room.id, room.players[pi].id).rooms
                      ELSE rms
         IN removeUserFromRooms(after, Tail(ids), userId)

Disconnect(s) ==
    /\ sockets[s] = "open"
    /\ sockets' = [sockets EXCEPT ![s] = "closed"]
    /\ LET userId == socketUsers[s] IN
       IF userId # Null
       THEN LET allRooms == getAllRooms(rooms)
                ids == [k \in DOMAIN allRooms |-> allRooms[k].id]
            IN /\ rooms' = removeUserFromRooms(rooms, ids, userId)
               /\ userSockets' = [userSockets EXCEPT ![userId] = Null]
               /\ socketUsers' = [socketUsers EXCEPT ![s] = Null]
               /\ cleanupTimers' = IF cleanupTimers < MaxTimers
                                   THEN cleanupTimers + 1 ELSE cleanupTimers
       ELSE UNCHANGED <<rooms, userSockets, socketUsers, cleanupTimers>>
    /\ UNCHANGED <<now, socketUserId, pendingReady, currentGame>>

\* ----------------------------------------------------------------- sweeps
Sweep(options) ==
    LET result == cleanupRooms(rooms, now, options) IN
    /\ rooms' = result.rooms
    /\ pendingReady' = livePending(pendingReady, result.rooms)

\* The timer the disconnect handler sets: cleanupRooms({ emptyRoomTimeout: 0 }).
CleanupTimerFires ==
    /\ cleanupTimers > 0
    /\ cleanupTimers' = cleanupTimers - 1
    /\ Sweep([NoOptions EXCEPT !.emptyRoomTimeout = 0])
    /\ UNCHANGED <<now, sockets, socketUserId, userSockets, socketUsers,
                   currentGame>>

\* The interval timer of the server: cleanupRooms().
PeriodicCleanup ==
    /\ Sweep(NoOptions)
    /\ UNCHANGED <<now, sockets, socketUserId, userSockets, socketUsers,
                   cleanupTimers, currentGame>>

\* Thresholds a caller of POST /api/cleanup can pass (a number above 0) or omit.
TimeoutInputs == {Absent, 1}

HttpCleanupRooms(e, f, i) ==
    /\ Sweep([emptyRoomTimeout |-> e, finishedGameTimeout |-> f,
              inactiveRoomTimeout |-> i])
    /\ UNCHANGED <<now, sockets, socketUserId, userSockets, socketUsers,
                   cleanupTimers, currentGame>>

Tick ==
    /\ now < MaxTicks * TickMinutes
    /\ now' = now + TickMinutes
    /\ UNCHANGED <<rooms, sockets, socketUserId, userSockets, socketUsers,
                   cleanupTimers, pendingReady, currentGame>>

\* ------------------------------------------------------------ HTTP surface
\* POST /api/rooms; uniqueId is what Utils.generateRoomId returned.
HttpCreateRoom(uniqueId) ==
    /\ rooms' = createRoom(rooms, uniqueId, now)
    /\ pendingReady' = {c \in pendingReady : c.roomId # uniqueId}
    /\ UNCHANGED <<now, sockets, socketUserId, userSockets, socketUsers,
                   cleanupTimers, currentGame>>

\* Ids of the seats POST /api/rooms/:roomId/join makes ("player_<time>_<random>").
HttpPlayerIds == {"h1"}

\* POST /api/rooms/:roomId/join: a seat that belongs to no identity.
HttpJoinRoom(roomId, playerId) ==
    /\ IF ~hasRoom(rooms, roomId) THEN UNCHANGED rooms
       ELSE rooms' = addPlayerToRoom(rooms, roomId, NewPlayer(playerId, Null, Null)).rooms
    /\ UNCHANGED <<now, sockets, socketUserId, userSockets, socketUsers,
                   cleanupTimers, pendingReady, currentGame>>

\* ------------------------------------------------------------ specification
\* The coordinates the client behind connection s sends for room roomId.
ClientTargets(s, roomId, plan) ==
    IF seated(s, roomId)
    THEN LET room == getRoom(rooms, roomId)
         IN Targets(room.players[findPlayerByUser(room, socketUserId[s])], plan)
    ELSE {plan[1]} \cup OutOfRangeShots

Shoot(plan) ==
    \E s \in Sockets, r \in RoomIds :
        \E t \in ClientTargets(s, r, plan) : MakeMove(s, r, t.x, t.y)

\* Clients that give up on a board after the destroyer and one miss.
ShortPlan == SubSeq(ShotPlan, 1, 3)

Next ==
    \/ \E s \in GameSockets : Connect(s)
    \/ \E s \in Sockets, valid \in BOOLEAN : Authenticate(s, valid)
    \/ \E s \in Sockets, r \in RoomIds, p \in PlayerIds : JoinRoom(s, r, p)
    \/ \E s \in Sockets, r \in RoomIds : LeaveRoom(s, r)
    \/ \E s \in Sockets, r \in RoomIds, f \in FleetInputs : PlaceShips(s, r, f)
    \/ \E s \in Sockets, r \in RoomIds : PlayerReady(s, r)
    \/ \E c \in pendingReady : PlayerReadyResume(c)
    \/ Shoot(ShortPlan)
    \/ \E s \in Sockets, r \in RoomIds : ChatMessage(s, r)
    \/ \E s \in Sockets, r \in RoomIds : RestartGame(s, r)
    \/ \E s \in Sockets : Disconnect(s)
    \/ CleanupTimerFires
    \/ PeriodicCleanup
    \/ \E e \in TimeoutInputs, f \in TimeoutInputs, i \in TimeoutInputs :
           HttpCleanupRooms(e, f, i)
    \/ Tick
    \/ \E r \in RoomIds : HttpCreateRoom(r)
    \/ \E r \in RoomIds, p \in HttpPlayerIds : HttpJoinRoom(r, p)

Spec == Init /\ [][Next]_vars

\* Whole games: each connection is handed one seat id, seats are taken only in
\* rooms that carry no marks of an earlier game, the clock stands still and
\* the clients shoot through the whole plan.
\* No shot has been recorded on any seat of the room.
Unmarked(roomId) ==
    hasRoom(rooms, roomId) =>
        \A i \in DOMAIN getRoom(rooms, roomId).players :
            LET p == getRoom(rooms, roomId).players[i]
            IN p.hits = {} /\ p.misses = {} /\ DOMAIN p.board = {}

SeatId == [s \in Sockets |-> IF s = "S1" THEN "p1" ELSE "p2"]

NextGame ==
    \/ \E s \in GameSockets : Connect(s)
    \/ \E s \in Sockets, valid \in BOOLEAN : Authenticate(s, valid)
    \/ \E s \in Sockets, r \in RoomIds : Unmarked(r) /\ JoinRoom(s, r, SeatId[s])
    \/ \E s \in Sockets, r \in RoomIds : LeaveRoom(s, r)
    \/ \E s \in Sockets, r \in RoomIds, f \in FleetInputs : PlaceShips(s, r, f)
    \/ \E s \in Sockets, r \in RoomIds : PlayerReady(s, r)
    \/ \E c \in pendingReady : PlayerReadyResume(c)
    \/ Shoot(ShotPlan)
    \/ \E s \in Sockets, r \in RoomIds : RestartGame(s, r)
    \/ \E s \in Sockets : Disconnect(s)
    \/ CleanupTimerFires
    \/ PeriodicCleanup
    \/ \E r \in RoomIds : HttpCreateRoom(r)

SpecGame == Init /\ [][NextGame]_vars

\* Fleet submission: seats are taken and every ships array of FleetCandidates
\* is sent with place-ships.
NextFleet ==
    \/ \E s \in GameSockets : Connect(s)
    \/ \E s \in Sockets, valid \in BOOLEAN : Authenticate(s, valid)
    \/ \E r \in RoomIds : HttpCreateRoom(r)
    \/ \E s \in Sockets, r \in RoomIds : JoinRoom(s, r, SeatId[s])
    \/ \E s \in Sockets, r \in RoomIds, f \in FleetCandidates : PlaceShips(s, r, f)

SpecFleet == Init /\ [][NextFleet]_vars

\* Reconnection: the first identity opens a further connection while its
\* game goes on; each identity takes its seat under one id, as ids made by
\* generatePlayerId are not shared between identities.
NextReconnect ==
    \/ \E s \in Sockets : Connect(s)
    \/ \E s \in Sockets, valid \in BOOLEAN : Authenticate(s, valid)
    \/ \E r \in RoomIds : HttpCreateRoom(r)
    \/ \E s \in GameSockets, r \in RoomIds : JoinRoom(s, r, SeatId[s])
    \/ \E s \in Sockets, r \in RoomIds : LeaveRoom(s, r)
    \/ \E s \in Sockets, r \in RoomIds : PlaceShips(s, r, ValidFleet)
    \/ \E s \in Sockets, r \in RoomIds : PlayerReady(s, r)
    \/ \E c \in pendingReady : PlayerReadyResume(c)
    \/ Shoot(ShortPlan)
    \/ \E s \in Sockets : Disconnect(s)
    \/ CleanupTimerFires

SpecReconnect == Init /\ [][NextReconnect]_vars

\* The sweep on its own: GameRoomModel.cleanupRooms called on registries built
\* as the tests of the module build them (createRoom, addPlayerToRoom and an
\* assignment to gameState), with rooms of every age around the thresholds.
SweepRoomIds == <<"A", "B">>

SweepAges ==
    {0, DefaultEmptyRoomTimeout - 1, DefaultEmptyRoomTimeout,
     DefaultFinishedGameTimeout - 1, DefaultFinishedGameTimeout,
     DefaultInactiveRoomTimeout - 1, DefaultInactiveRoomTimeout}

SweepPhases == {"waiting", "setup", "playing", "finished"}

SweepSeats ==
    { << >>,
      <<NewPlayer("p1", "U1", Null)>>,
      <<NewPlayer("p1", "U1", Null), NewPlayer("p2", "U2", Null)>> }

\* The clock at the sweep.
SweepNow == DefaultInactiveRoomTimeout

SweepRooms(id) ==
    {[id |-> id, players |-> seats, currentTurn |-> Null, gameState |-> phase,
      winner |-> Null, createdAt |-> SweepNow - age] :
        seats \in SweepSeats, phase \in SweepPhases, age \in SweepAges}

\* Thresholds handed to cleanupRooms: left out, 0, or the default for
\* finished games.
SweepTimeouts == {Absent, 0, DefaultFinishedGameTimeout}

InitSweep ==
    /\ rooms \in {<<a, b>> : a \in SweepRooms(SweepRoomIds[1]),
                             b \in SweepRooms(SweepRoomIds[2])}
    /\ now = SweepNow
    /\ sockets = [s \in Sockets |-> "new"]
    /\ socketUserId = [s \in Sockets |-> Null]
    /\ userSockets = [u \in Users |-> Null]
    /\ socketUsers = [s \in Sockets |-> Null]
    /\ cleanupTimers = 0
    /\ pendingReady = {}
    /\ currentGame = [u \in Users |-> NoGame]

\* GameRoomModel.cleanupRooms(options) called directly.
cleanupRoomsCall(e, f, i) ==
    /\ Sweep([emptyRoomTimeout |-> e, finishedGameTimeout |-> f,
              inactiveRoomTimeout |-> i])
    /\ UNCHANGED <<now, sockets, socketUserId, userSockets, socketUsers,
                   cleanupTimers, currentGame>>

NextSweep ==
    \E e \in SweepTimeouts, f \in SweepTimeouts, i \in SweepTimeouts :
        cleanupRoomsCall(e, f, i)

SpecSweep == InitSweep /\ [][NextSweep]_vars

\* ------------------------------------------------------------- properties
\* The seat of room a connection s acts for: the first one its identity owns,
\* 0 when it is not authenticated or owns none.
CallerSeat(room, s) ==
    LET owned == {i \in DOMAIN room.players :
                    socketUserId[s] # Null /\ room.players[i].userId = socketUserId[s]}
    IN IF owned = {} THEN 0 ELSE CHOOSE i \in owned : \A j \in owned : i <= j

\* The conditions under which the protocol accepts a shot of s at (x, y).
ShotAcceptable(s, r, x, y) ==
    /\ hasRoom(rooms, r)
    /\ LET room == getRoom(rooms, r)
           seat == CallerSeat(room, s)
       IN /\ room.gameState = "playing"
          /\ seat # 0
          /\ room.currentTurn = room.players[seat].id
          /\ x \in 0..9 /\ y \in 0..9
          /\ Pos(x, y) \notin room.players[seat].hits \cup room.players[seat].misses

\* (x, y) is a cell of a ship of fleet.
OnShip(fleet, x, y) ==
    \E k \in DOMAIN fleet : \E j \in DOMAIN fleet[k].positions :
        fleet[k].positions[j] = Pos(x, y)

\* Every ship of a non-empty fleet is marked destroyed.
FleetSunk(fleet) ==
    fleet # << >> /\ \A k \in DOMAIN fleet : fleet[k].isDestroyed

\* C1: an accepted make-move in a playing room that does not destroy the
\* opponent's last ship (a miss, or a hit that leaves a ship afloat) moves
\* currentTurn from the firing seat's id to the other seat's id; a make-move
\* that is rejected (wrong phase, off turn, off the board, cell already
\* targeted) leaves currentTurn as it was.
C1_TurnPassesOnAcceptedShot ==
    [][rooms' # rooms =>
       \A s \in Sockets, r \in RoomIds :
        \A t \in ClientTargets(s, r, ShotPlan) :
          hasRoom(rooms, r) /\ MakeMove(s, r, t.x, t.y) =>
              LET room == getRoom(rooms, r)
                  after == getRoom(rooms', r)
              IN IF ShotAcceptable(s, r, t.x, t.y)
                 THEN LET firing == CallerSeat(room, s)
                          other == 3 - firing
                          lastShipDestroyed ==
                              /\ OnShip(room.players[other].ships, t.x, t.y)
                              /\ FleetSunk(after.players[other].ships)
                      IN ~lastShipDestroyed =>
                             /\ room.currentTurn = room.players[firing].id
                             /\ after.currentTurn = room.players[other].id
                             /\ after.currentTurn # room.currentTurn
                 ELSE after.currentTurn = room.currentTurn]_vars

\* C1 witness: the second seat is on turn after a recorded shot of the first.
C1_Witness ==
    \E k \in DOMAIN rooms :
        /\ rooms[k].gameState = "playing"
        /\ Len(rooms[k].players) = 2
        /\ rooms[k].currentTurn = rooms[k].players[2].id
        /\ rooms[k].players[1].hits \cup rooms[k].players[1].misses # {}

\* Both seats of room are ready and both hold a non-empty fleet.
BothReadyWithFleets(room) ==
    /\ Len(room.players) = 2
    /\ \A i \in 1..2 : room.players[i].isReady /\ room.players[i].ships # << >>

\* C2: a room goes from setup to playing if and only if both of its seats are
\* ready and both hold a non-empty validated fleet: a step that takes a room
\* from setup to playing ends with both conditions true, and a place-ships
\* (with no player-ready of the room still suspended) or a completed
\* player-ready on a setup room that ends with both conditions true ends with
\* the room playing.
C2_PlayingIffBothReady ==
    [][rooms' # rooms =>
       \A r \in RoomIds :
          hasRoom(rooms, r) /\ hasRoom(rooms', r)
              /\ getRoom(rooms, r).gameState = "setup" =>
          LET after == getRoom(rooms', r)
              submitFleet ==
                  /\ \A c \in pendingReady : c.roomId # r
                  /\ \E s \in Sockets, f \in FleetInputs : PlaceShips(s, r, f)
              markReady == \E c \in pendingReady :
                               c.roomId = r /\ PlayerReadyResume(c)
          IN /\ after.gameState = "playing" => BothReadyWithFleets(after)
             /\ (submitFleet \/ markReady) /\ BothReadyWithFleets(after)
                    => after.gameState = "playing"]_vars

\* C3: a room becomes finished exactly at the accepted shot after which every
\* ship of the seat that did not fire is marked destroyed, and that step sets
\* winner to the id of the seat that fired; no other step makes a room
\* finished or gives it a winner.
C3_FinishedExactlyAtLastShip ==
    [][rooms' # rooms =>
       \A r \in RoomIds :
          hasRoom(rooms, r) /\ hasRoom(rooms', r) =>
          LET room == getRoom(rooms, r)
              after == getRoom(rooms', r)
              sinking(s) ==
                  \E t \in ClientTargets(s, r, ShotPlan) :
                      /\ ShotAcceptable(s, r, t.x, t.y)
                      /\ MakeMove(s, r, t.x, t.y)
                      /\ FleetSunk(after.players[3 - CallerSeat(room, s)].ships)
          IN /\ \A s \in Sockets :
                    sinking(s) =>
                        /\ after.gameState = "finished"
                        /\ after.winner = room.players[CallerSeat(room, s)].id
             /\ room.gameState # "finished" /\ after.gameState = "finished"
                    => \E s \in Sockets : sinking(s)
             /\ after.winner # room.winner /\ after.winner # Null
                    => \E s \in Sockets : sinking(s)]_vars

\* C4: a make-move of a seat at a cell that seat's hits or misses already
\* record is rejected: it leaves both grids of the seat, the opponent's fleet
\* and board, the turn, the phase and the winner (the whole registry) as they
\* were.
C4_RepeatedShotChangesNothing ==
    [][rooms' # rooms =>
       \A s \in Sockets, r \in RoomIds :
          hasRoom(rooms, r) /\ CallerSeat(getRoom(rooms, r), s) # 0 =>
          LET seat == getRoom(rooms, r).players[CallerSeat(getRoom(rooms, r), s)]
          IN \A t \in seat.hits \cup seat.misses : ~MakeMove(s, r, t.x, t.y)]_vars

\* C4 witness: a seat is on turn in a playing room with the first cell of the
\* plan, which its client sends again, among its recorded hits.
C4_Witness ==
    \E k \in DOMAIN rooms : \E i \in DOMAIN rooms[k].players :
        /\ rooms[k].gameState = "playing"
        /\ rooms[k].currentTurn = rooms[k].players[i].id
        /\ ShotPlan[1] \in rooms[k].players[i].hits
        /\ \E s \in Sockets :
               sockets[s] = "open" /\ CallerSeat(rooms[k], s) = i

\* The seats, as <<room index, seat index>>, that identity u owns.
SeatsOf(u) ==
    {ki \in UNION {{<<k, i>> : i \in DOMAIN rooms[k].players} : k \in DOMAIN rooms} :
        rooms[ki[1]].players[ki[2]].userId = u}

\* C5: every authenticated identity owns at most one seat across all rooms.
C5_OneSeatPerIdentity ==
    \A u \in Users : Cardinality(SeatsOf(u)) <= 1

\* The cells of a ship, as a set.
Cells(ship) == {ship.positions[j] : j \in DOMAIN ship.positions}

\* The cells of ship are n cells in one line, next to one another.
StraightRun(ship, n) ==
    \E x0 \in 0..9, y0 \in 0..9 :
        \/ Cells(ship) = {Pos(x0 + d, y0) : d \in 0..(n - 1)}
        \/ Cells(ship) = {Pos(x0, y0 + d) : d \in 0..(n - 1)}

\* Five ships of lengths 5, 4, 3, 3 and 2, no cell shared, every ship as many
\* cells as its length, in one straight run, on the 10x10 grid.
Canonical(fleet) ==
    /\ Len(fleet) = 5
    /\ \E order \in [1..5 -> 1..5] :
           /\ \A a, b \in 1..5 : a # b => order[a] # order[b]
           /\ [k \in 1..5 |-> fleet[order[k]].length] = <<5, 4, 3, 3, 2>>
    /\ \A a, b \in 1..5 : a # b => Cells(fleet[a]) \cap Cells(fleet[b]) = {}
    /\ \A a \in 1..5 :
           /\ Len(fleet[a].positions) = fleet[a].length
           /\ Cardinality(Cells(fleet[a])) = fleet[a].length
           /\ StraightRun(fleet[a], fleet[a].length)
           /\ \A c \in Cells(fleet[a]) : c.x \in 0..9 /\ c.y \in 0..9

\* C6: every fleet validateShipPlacement accepts, and place-ships therefore
\* stores on a seat, is canonical.
C6_AcceptedFleetIsCanonical ==
    \A k \in DOMAIN rooms : \A i \in DOMAIN rooms[k].players :
        rooms[k].players[i].ships # << >> => Canonical(rooms[k].players[i].ships)

\* The seat ids and the seats the registry operations are called with.
SeatIdInputs == PlayerIds \cup HttpPlayerIds

SeatInputs == {NewPlayer(p, u, Null) : p \in SeatIdInputs, u \in Users \cup {Null}}

\* Room roomId holds a seat with id playerId.
HoldsSeat(rms, roomId, playerId) ==
    \E k \in DOMAIN rms :
        rms[k].id = roomId /\ \E i \in DOMAIN rms[k].players :
                                  rms[k].players[i].id = playerId

\* C7: removePlayerFromRoom(roomId, playerId) returns false and changes
\* nothing when the room or the seat is absent; otherwise it returns true,
\* removes that seat alone and keeps the others in order, and leaves the room
\* waiting: with currentTurn and winner null when it was in setup, playing or
\* finished, and otherwise as it was when it was waiting.
C7_RemoveSeat ==
    \A roomId \in RoomIds, playerId \in SeatIdInputs :
        LET result == removePlayerFromRoom(rooms, roomId, playerId) IN
        IF ~HoldsSeat(rooms, roomId, playerId)
        THEN ~result.ok /\ result.rooms = rooms
        ELSE /\ result.ok
             /\ Len(result.rooms) = Len(rooms)
             /\ \A k \in DOMAIN rooms :
                    LET before == rooms[k]
                        after == result.rooms[k]
                    IN IF before.id # roomId THEN after = before
                       ELSE /\ after.id = before.id
                            /\ after.createdAt = before.createdAt
                            /\ after.players =
                                   SelectSeq(before.players, LAMBDA p : p.id # playerId)
                            /\ Len(after.players) = Len(before.players) - 1
                            /\ after.gameState = "waiting"
                            /\ IF before.gameState \in {"setup", "playing", "finished"}
                               THEN after.currentTurn = Null /\ after.winner = Null
                               ELSE /\ after.currentTurn = before.currentTurn
                                    /\ after.winner = before.winner

\* C7 witness: a seat was removed in the middle of a game: the room is
\* waiting with the one seat left, which has shots on record.
C7_Witness ==
    \E k \in DOMAIN rooms :
        /\ rooms[k].gameState = "waiting"
        /\ Len(rooms[k].players) = 1
        /\ rooms[k].players[1].hits # {}
        /\ rooms[k].currentTurn = Null

\* C8: addPlayerToRoom(roomId, player) returns false, and leaves the registry
\* as it was, exactly when the room is absent, holds 2 seats already or holds
\* a seat of the same id; otherwise it returns true and appends the seat. So
\* no room ever holds more than 2 seats or two seats of one id.
C8_AddSeat ==
    /\ \A k \in DOMAIN rooms :
           /\ Len(rooms[k].players) <= 2
           /\ \A i, j \in DOMAIN rooms[k].players :
                  i # j => rooms[k].players[i].id # rooms[k].players[j].id
    /\ \A roomId \in RoomIds, player \in SeatInputs :
           LET result == addPlayerToRoom(rooms, roomId, player)
               refused ==
                   \/ \A k \in DOMAIN rooms : rooms[k].id # roomId
                   \/ \E k \in DOMAIN rooms :
                          rooms[k].id = roomId /\ Len(rooms[k].players) = 2
                   \/ HoldsSeat(rooms, roomId, player.id)
           IN /\ result.ok = ~refused
              /\ refused => result.rooms = rooms
              /\ ~refused =>
                     /\ Len(result.rooms) = Len(rooms)
                     /\ \A k \in DOMAIN rooms :
                            LET before == rooms[k]
                                after == result.rooms[k]
                            IN IF before.id # roomId THEN after = before
                               ELSE /\ after.players = Append(before.players, player)
                                    /\ after.id = before.id
                                    /\ after.createdAt = before.createdAt
                                    /\ after.currentTurn = before.currentTurn
                                    /\ after.winner = before.winner

\* C8 witness: a room is full after two seats were added, and a third is
\* refused.
C8_Witness ==
    \E k \in DOMAIN rooms :
        /\ Len(rooms[k].players) = 2
        /\ \E player \in SeatInputs :
               /\ ~HoldsSeat(rooms, rooms[k].id, player.id)
               /\ ~addPlayerToRoom(rooms, rooms[k].id, player).ok

\* C9: among the calls of addPlayerToRoom, the one that succeeds on a waiting
\* room with one seat, and so brings it to two, moves the room to setup; every
\* other call (the first seat of a room, a refused call, a call on a room that
\* is not waiting) leaves the gameState of every room as it was.
C9_SetupAtSecondSeat ==
    \A roomId \in RoomIds, player \in SeatInputs :
        LET result == addPlayerToRoom(rooms, roomId, player) IN
        /\ Len(result.rooms) = Len(rooms)
        /\ \A k \in DOMAIN rooms :
               LET before == rooms[k]
                   after == result.rooms[k]
                   secondSeat ==
                       /\ before.id = roomId
                       /\ result.ok
                       /\ before.gameState = "waiting"
                       /\ Len(before.players) = 1
               IN after.gameState =
                      IF secondSeat THEN "setup" ELSE before.gameState

\* C9 witness: a room that the second seat has just moved to setup.
C9_Witness ==
    \E k \in DOMAIN rooms :
        /\ rooms[k].gameState = "setup"
        /\ Len(rooms[k].players) = 2
        /\ \A i \in 1..2 : ~rooms[k].players[i].isReady
                           /\ rooms[k].players[i].ships = << >>

\* C10: a playing room holds exactly 2 seats and its currentTurn is the id of
\* one of the two.
C10_PlayingHasTwoSeatsAndTurn ==
    \A k \in DOMAIN rooms :
        rooms[k].gameState = "playing" =>
            /\ Len(rooms[k].players) = 2
            /\ \E i \in 1..2 : rooms[k].currentTurn = rooms[k].players[i].id

\* C10 witness: a room is playing.
C10_Witness ==
    \E k \in DOMAIN rooms :
        rooms[k].gameState = "playing" /\ rooms[k].currentTurn # Null

\* C11: in every reachable state a room with no seats is waiting.
C11_EmptyRoomIsWaiting ==
    \A k \in DOMAIN rooms :
        rooms[k].players = << >> => rooms[k].gameState = "waiting"

\* The shots a seat has recorded.
Tried(player) == player.hits \cup player.misses

\* C12: a room that stays in the registry changes its gameState only from
\* waiting to setup as its second seat is added, from setup to playing with
\* both seats ready and holding fleets, from playing to finished with a fleet
\* wholly destroyed, to waiting as a seat is removed, or to setup by
\* restart-game; and a playing room is not started again: while it stays
\* playing its currentTurn changes only with a recorded shot.
C12_PhaseChanges ==
    [][rooms' # rooms =>
       \A r \in RoomIds :
         hasRoom(rooms, r) /\ hasRoom(rooms', r) /\ ~HttpCreateRoom(r) =>
           LET before == getRoom(rooms, r)
               after == getRoom(rooms', r)
           IN /\ before.gameState # after.gameState =>
                   \/ /\ before.gameState = "waiting" /\ after.gameState = "setup"
                      /\ Len(before.players) = 1 /\ Len(after.players) = 2
                   \/ /\ before.gameState = "setup" /\ after.gameState = "playing"
                      /\ BothReadyWithFleets(after)
                   \/ /\ before.gameState = "playing" /\ after.gameState = "finished"
                      /\ \E i \in DOMAIN after.players : FleetSunk(after.players[i].ships)
                   \/ /\ after.gameState = "waiting"
                      /\ Len(after.players) < Len(before.players)
                   \/ /\ after.gameState = "setup"
                      /\ \E s \in Sockets : RestartGame(s, r)
              /\ ( /\ before.gameState = "playing" /\ after.gameState = "playing"
                   /\ after.currentTurn # before.currentTurn )
                 => \E i \in DOMAIN before.players :
                        /\ i \in DOMAIN after.players
                        /\ Tried(after.players[i]) # Tried(before.players[i])]_vars

\* C13: a make-move changes a room only when the connection is authenticated
\* and its identity has a seat in the room, the room is playing, that seat's
\* id is currentTurn, the coordinates are on the board and the cell is in
\* neither the seat's hits nor its misses; so a make-move of the seat that
\* does not hold the turn changes nothing.
C13_ShotMutatesOnlyWhenAcceptable ==
    [][rooms' # rooms =>
       \A s \in Sockets, r \in RoomIds :
         \A t \in ClientTargets(s, r, ShortPlan) :
           MakeMove(s, r, t.x, t.y) => ShotAcceptable(s, r, t.x, t.y)]_vars

\* A playing room in which the seat that does not hold the turn has a shot
\* on record: a make-move was accepted, and that seat can now only send
\* make-moves that are off turn.
C13_Witness ==
    \E k \in DOMAIN rooms :
        /\ rooms[k].gameState = "playing"
        /\ Len(rooms[k].players) = 2
        /\ \E i \in 1..2 :
              /\ rooms[k].players[i].id # rooms[k].currentTurn
              /\ Tried(rooms[k].players[i]) # {}
              /\ \E s \in Sockets : CallerSeat(rooms[k], s) = i /\ sockets[s] = "open"

\* The gameState, currentTurn, winner and ready flags of a room.
ReadyView(room) ==
    <<room.gameState, room.currentTurn, room.winner,
      [i \in DOMAIN room.players |-> room.players[i].isReady]>>

\* C14: a player-ready of a seated identity on a room that is waiting, playing
\* or finished changes neither gameState, currentTurn, winner nor any seat's
\* isReady, neither before nor after the handler's await.
C14_ReadyOnlyInSetup ==
    [][rooms' # rooms =>
       \A r \in RoomIds :
         hasRoom(rooms, r) /\ getRoom(rooms, r).gameState # "setup" =>
           /\ \A s \in Sockets :
                seated(s, r) /\ PlayerReady(s, r) =>
                  ReadyView(getRoom(rooms', r)) = ReadyView(getRoom(rooms, r))
           /\ \A c \in pendingReady :
                c.roomId = r /\ PlayerReadyResume(c) =>
                  ReadyView(getRoom(rooms', r)) = ReadyView(getRoom(rooms, r))]_vars

\* The fleets of a room, seat by seat.
Fleets(room) == [i \in DOMAIN room.players |-> room.players[i].ships]

\* C15: a place-ships from a seated identity on a setup room with a fleet that
\* passes validation replaces that seat's ships with the fleet sent and leaves
\* the other seats' ships alone; every other place-ships (room waiting,
\* playing or finished, fleet rejected, caller without a seat) leaves every
\* seat's ships as they were.
C15_FleetOnlyInSetup ==
    [][rooms' # rooms =>
       \A s \in Sockets, r \in RoomIds, f \in FleetInputs :
         hasRoom(rooms, r) /\ PlaceShips(s, r, f) =>
           LET before == getRoom(rooms, r)
               after == getRoom(rooms', r)
               seat == CallerSeat(before, s)
           IN IF seat # 0 /\ before.gameState = "setup" /\ validateShipPlacement(f)
              THEN Fleets(after) = [Fleets(before) EXCEPT ![seat] = f]
              ELSE Fleets(after) = Fleets(before)]_vars

\* The cell is marked on board with the id of a ship: a shot has hit it.
HitOn(board, cell, ship) == cell \in DOMAIN board /\ board[cell] = ship.id

\* C16: in every reachable state, every ship of every seat has isDestroyed
\* true exactly when each of its cells carries the mark of a hit on the
\* seat's board.
C16_DestroyedIffAllCellsHit ==
    \A k \in DOMAIN rooms : \A i \in DOMAIN rooms[k].players :
        LET player == rooms[k].players[i] IN
        \A n \in DOMAIN player.ships :
            player.ships[n].isDestroyed <=>
                \A cell \in Cells(player.ships[n]) :
                    HitOn(player.board, cell, player.ships[n])

\* ------------------------------------------------------------------ events
\* io.to(roomId): the seats of room whose connection joined the socket room
\* and is still open.
Listeners(room) ==
    {i \in DOMAIN room.players :
        /\ room.players[i].socketId \in Sockets
        /\ sockets'[room.players[i].socketId] = "open"}

\* The payload of "game-started".
gameStartedEvent(room) == [room |-> room, currentTurn |-> room.currentTurn]

\* The payload of "player-ready-status".
playerReadyStatusEvent(room, playerId) ==
    [playerId |-> playerId, isReady |-> TRUE, room |-> room]

\* The payload of "move-result" of an accepted shot, less the verdict of the
\* shot itself (hit, shipDestroyed, gameEnded, winner).
moveResultEvent(room, playerId, x, y) ==
    [success |-> TRUE, playerId |-> playerId, x |-> x, y |-> y,
     currentTurn |-> room.currentTurn, room |-> room]

\* The event the player-ready handler c sends as it resumes.
readyEvent(c) ==
    IF allReady(getRoom(rooms, c.roomId))
    THEN gameStartedEvent(getRoom(rooms', c.roomId))
    ELSE playerReadyStatusEvent(getRoom(rooms', c.roomId), c.playerId)

\* The cells of the ships of fleet.
FleetCells(fleet) == UNION {Cells(fleet[n]) : n \in DOMAIN fleet}

\* The payload shows seat i of its room a cell of the fleet of a seat of
\* another identity that seat i has not hit.
Reveals(payload, i) ==
    \E j \in DOMAIN payload.room.players :
        /\ payload.room.players[j].userId # payload.room.players[i].userId
        /\ FleetCells(payload.room.players[j].ships)
               \ payload.room.players[i].hits # {}

\* C17: no game-started, player-ready-status or move-result event reaches the
\* connection of a seat carrying a cell of another seat's fleet that the
\* receiving seat has not hit.
C17_NoFleetInEvents ==
    [][ /\ \A c \in pendingReady :
             PlayerReadyResume(c) /\ hasRoom(rooms', c.roomId) =>
                 \A i \in Listeners(readyEvent(c).room) : ~Reveals(readyEvent(c), i)
        /\ rooms' # rooms =>
             \A s \in Sockets, r \in RoomIds :
               \A t \in ClientTargets(s, r, ShortPlan) :
                 MakeMove(s, r, t.x, t.y) =>
                   LET payload == moveResultEvent(getRoom(rooms', r),
                                     getRoom(rooms, r).currentTurn, t.x, t.y)
                   IN \A i \in Listeners(payload.room) : ~Reveals(payload, i)]_vars

\* C18: while a player-ready handler is suspended between setting isReady and
\* its both-ready check, its room changes only by that handler going on.
C18_HandlersRunToCompletion ==
    [][rooms' # rooms =>
       \A c \in pendingReady :
         ( /\ hasRoom(rooms, c.roomId)
           /\ \/ ~hasRoom(rooms', c.roomId)
              \/ getRoom(rooms', c.roomId) # getRoom(rooms, c.roomId) )
         => PlayerReadyResume(c)]_vars

\* C19: once the disconnect of an authenticated connection is handled, no room
\* holds a seat of its identity, every room that held one while in setup,
\* playing or finished is waiting, and neither map binds the connection.
C19_DisconnectFreesIdentity ==
    [][\A s \in Sockets :
         socketUsers[s] # Null /\ Disconnect(s) =>
           LET u == socketUsers[s] IN
           /\ \A k \in DOMAIN rooms' : \A i \in DOMAIN rooms'[k].players :
                  rooms'[k].players[i].userId # u
           /\ \A k \in DOMAIN rooms :
                  ( /\ findPlayerByUser(rooms[k], u) # 0
                    /\ rooms[k].gameState \in {"setup", "playing", "finished"}
                    /\ hasRoom(rooms', rooms[k].id) )
                  => getRoom(rooms', rooms[k].id).gameState = "waiting"
           /\ socketUsers'[s] = Null
           /\ userSockets'[u] # s]_vars

\* The seat the stored game of identity u names, 0 when u has no stored game
\* or its room or seat is gone.
StoredSeat(u) ==
    IF currentGame[u] = NoGame \/ ~hasRoom(rooms, currentGame[u].roomId) THEN 0
    ELSE LET room == getRoom(rooms, currentGame[u].roomId)
             found == {i \in DOMAIN room.players :
                          room.players[i].id = currentGame[u].playerId}
         IN IF found = {} THEN 0 ELSE CHOOSE i \in found : \A j \in found : i <= j

\* C20: when an identity whose stored seat is still in its room authenticates
\* on a connection, the two maps bind identity and connection, that seat (the
\* identity's own, under the same id) is given the connection and is
\* otherwise as it was, the room keeps its other seats, its seat count,
\* gameState, currentTurn and winner, and the registry its other rooms.
C20_ReconnectResumesSeat ==
    [][\A s \in Sockets :
         Authenticate(s, TRUE) /\ StoredSeat(SocketCookie[s]) # 0 =>
           LET u == SocketCookie[s]
               i == StoredSeat(u)
               k == roomIndex(rooms, currentGame[u].roomId)
           IN /\ userSockets'[u] = s /\ socketUsers'[s] = u
              /\ rooms' = [rooms EXCEPT ![k].players[i].socketId = s]
              /\ rooms'[k].players[i].id = currentGame[u].playerId
              /\ rooms'[k].players[i].userId = u
              /\ Len(rooms'[k].players) = Len(rooms[k].players)
              /\ ReadyView(rooms'[k]) = ReadyView(rooms[k])]_vars

\* A playing room in which the first identity's seat, ready and with a shot
\* on record, has passed from the connection that took it to the further one
\* while the first is still open.
C20_Witness ==
    \E k \in DOMAIN rooms : \E i \in DOMAIN rooms[k].players :
        /\ rooms[k].gameState = "playing"
        /\ rooms[k].players[i].socketId = "S3"
        /\ rooms[k].players[i].isReady
        /\ rooms[k].players[i].hits # {}
        /\ sockets["S1"] = "open" /\ sockets["S3"] = "open"
        /\ userSockets["U1"] = "S3"

\* The seat is as join-room made it: not ready, no fleet, no board mark, no
\* shot on record.
CleanSeat(player) ==
    /\ ~player.isReady
    /\ player.ships = << >>
    /\ player.board = initializeBoard
    /\ player.hits = {} /\ player.misses = {}

\* C21: a restart-game sent by an identity that has a seat in the room leaves
\* the room in setup with currentTurn and winner null and with every seat
\* clean, and keeps the same seats (ids and owners) in the same order.
C21_RestartResetsRoom ==
    [][rooms' # rooms =>
       \A s \in Sockets, r \in RoomIds :
         seated(s, r) /\ RestartGame(s, r) =>
           LET before == getRoom(rooms, r)
               after == getRoom(rooms', r)
           IN /\ after.gameState = "setup"
              /\ after.currentTurn = Null /\ after.winner = Null
              /\ Len(after.players) = Len(before.players)
              /\ \A i \in DOMAIN after.players :
                    /\ after.players[i].id = before.players[i].id
                    /\ after.players[i].userId = before.players[i].userId
                    /\ CleanSeat(after.players[i])]_vars

\* A room in setup with a single clean seat, whose identity is the only one
\* authenticated: a room gets to setup with one seat only by restart-game.
C21_Witness ==
    \E k \in DOMAIN rooms :
        /\ rooms[k].gameState = "setup"
        /\ Len(rooms[k].players) = 1
        /\ CleanSeat(rooms[k].players[1])
        /\ \E s \in Sockets :
              /\ sockets[s] = "open" /\ CallerSeat(rooms[k], s) = 1
              /\ \A s2 \in Sockets \ {s} : socketUserId[s2] = Null

\* C22: a restart-game sent by an authenticated identity that has no seat in
\* the room leaves the room as it was and sends no "game-restarted".
C22_RestartNeedsSeat ==
    [][rooms' # rooms =>
       \A s \in Sockets, r \in RoomIds :
         ( /\ socketUserId[s] # Null /\ hasRoom(rooms, r) /\ ~seated(s, r)
           /\ RestartGame(s, r) )
         => /\ hasRoom(rooms', r)
            /\ getRoom(rooms', r) = getRoom(rooms, r)
            /\ ~gameRestartedSent(s, r)]_vars

C24_CreateIsFresh ==
    [][\A r \in RoomIds :
         HttpCreateRoom(r) =>
           /\ ~hasRoom(rooms, r)
           /\ Len(rooms') = Len(rooms) + 1
           /\ \A k \in DOMAIN rooms : rooms'[k] = rooms[k]
           /\ getRoom(rooms', r).gameState = "waiting"
           /\ getRoom(rooms', r).players = << >>
           /\ getRoom(rooms', r).currentTurn = Null
           /\ getRoom(rooms', r).winner = Null]_vars

\* The room is in setup with two seats that both hold a fleet.
SetupWithFleets(room) ==
    /\ room.gameState = "setup"
    /\ Len(room.players) = 2
    /\ \A i \in 1..2 : room.players[i].ships # << >>

\* C25: on a room in setup whose two seats hold fleets, a player-ready marks
\* the caller's seat ready and nothing else, and the both-ready check of
\* either seat's handler leaves the room as it is while a seat is not ready
\* and, once both are, sets it playing with currentTurn the id of the seat
\* that joined first: whichever seat is ready first, the first player-ready
\* alone starts nothing and the end is the same room.
C25_ReadyOrderIsImmaterial ==
    [][rooms' # rooms \/ pendingReady' # pendingReady =>
       \A r \in RoomIds :
         hasRoom(rooms, r) /\ SetupWithFleets(getRoom(rooms, r)) =>
           LET before == getRoom(rooms, r) IN
           /\ \A s \in Sockets :
                seated(s, r) /\ PlayerReady(s, r) =>
                  getRoom(rooms', r) =
                    [before EXCEPT !.players[CallerSeat(before, s)].isReady = TRUE]
           /\ \A c \in pendingReady :
                c.roomId = r /\ PlayerReadyResume(c) =>
                  getRoom(rooms', r) =
                    IF before.players[1].isReady /\ before.players[2].isReady
                    THEN [before EXCEPT !.gameState = "playing",
                                        !.currentTurn = before.players[1].id]
                    ELSE before]_vars

\* A room started after both player-ready handlers ran to their end: both
\* seats ready with fleets, no shot fired, the turn with the seat that joined
\* first, and no handler still suspended.
C25_Witness ==
    \E k \in DOMAIN rooms :
        /\ rooms[k].gameState = "playing"
        /\ BothReadyWithFleets(rooms[k])
        /\ rooms[k].currentTurn = rooms[k].players[1].id
        /\ \A i \in 1..2 : Tried(rooms[k].players[i]) = {}
        /\ pendingReady = {}

\* The age of a room at the sweep, in minutes.
Age(room) == now - room.createdAt

\* The threshold a sweep works with: the one passed, or the default.
Threshold(passed, default) == IF passed = Absent THEN default ELSE passed

\* The options of a sweep.
Options(e, f, i) ==
    [emptyRoomTimeout |-> e, finishedGameTimeout |-> f, inactiveRoomTimeout |-> i]

\* The room is still in the registry, as it was, after cleanupRooms(options).
Kept(room, options) ==
    LET after == cleanupRooms(rooms, now, options).rooms
    IN hasRoom(after, room.id) /\ getRoom(after, room.id) = room

\* The room is gone from the registry after cleanupRooms(options).
Deleted(room, options) ==
    ~hasRoom(cleanupRooms(rooms, now, options).rooms, room.id)

\* C26: cleanupRooms with the three thresholds at 0 deletes every finished
\* room and every waiting or setup room without seats, and keeps every
\* playing room that has a seat.
C26_SweepAtZero ==
    \A k \in DOMAIN rooms :
        LET room == rooms[k] IN
        /\ room.gameState = "finished" => Deleted(room, Options(0, 0, 0))
        /\ room.gameState \in {"waiting", "setup"} /\ room.players = << >>
              => Deleted(room, Options(0, 0, 0))
        /\ room.gameState = "playing" /\ room.players # << >>
              => Kept(room, Options(0, 0, 0))

\* A playing room with a seat, just created, is the one room left of the two.
C26_Witness ==
    /\ Len(rooms) = 1
    /\ rooms[1].gameState = "playing"
    /\ rooms[1].players # << >>
    /\ Age(rooms[1]) = 0

C28_SeatedRoomsSurvive ==
    \A e \in SweepTimeouts, f \in SweepTimeouts, i \in SweepTimeouts :
        \A k \in DOMAIN rooms :
            rooms[k].players # << >> /\ rooms[k].gameState # "finished"
                => Kept(rooms[k], Options(e, f, i))

\* The oldest of waiting or setup rooms, with a seat taken, is the one room
\* left.
C28_Witness ==
    /\ Len(rooms) = 1
    /\ rooms[1].gameState \in {"waiting", "setup"}
    /\ rooms[1].players # << >>
    /\ Age(rooms[1]) = DefaultInactiveRoomTimeout

\* The first of the rules finished, inactive, empty that a room meets under
\* thresholds e, f, i; "none" when it meets none.
FirstRule(room, e, f, i) ==
    IF room.gameState = "finished"
       /\ Age(room) >= Threshold(f, DefaultFinishedGameTimeout)
    THEN "finished"
    ELSE IF /\ room.gameState \in {"waiting", "setup"} /\ room.players = << >>
            /\ Age(room) >= Threshold(i, DefaultInactiveRoomTimeout)
    THEN "inactive"
    ELSE IF /\ room.players = << >> /\ room.gameState # "finished"
            /\ Age(room) >= Threshold(e, DefaultEmptyRoomTimeout)
    THEN "empty"
    ELSE "none"

\* C29: cleanupRooms deletes exactly the rooms that meet one of the rules and
\* counts each under the first of finished, inactive, empty it meets; the
\* rooms it keeps are counted under no rule, and the three counts and
\* totalRoomsRemaining add up to the number of rooms before the sweep.
C29_SweepCounts ==
    \A e \in SweepTimeouts, f \in SweepTimeouts, i \in SweepTimeouts :
        LET result == cleanupRooms(rooms, now, Options(e, f, i))
            met(rule) == {k \in DOMAIN rooms : FirstRule(rooms[k], e, f, i) = rule}
        IN /\ result.finishedGamesRemoved = Cardinality(met("finished"))
           /\ result.inactiveRoomsRemoved = Cardinality(met("inactive"))
           /\ result.emptyRoomsRemoved = Cardinality(met("empty"))
           /\ result.totalRoomsRemaining = Cardinality(met("none"))
           /\ \A k \in DOMAIN rooms :
                 IF k \in met("none")
                 THEN Kept(rooms[k], Options(e, f, i))
                 ELSE Deleted(rooms[k], Options(e, f, i))
           /\ result.emptyRoomsRemoved + result.finishedGamesRemoved
                 + result.inactiveRoomsRemoved + result.totalRoomsRemaining
              = Len(rooms)

\* Sweeps have taken both rooms.
C29_Witness == rooms = << >> /\ now = SweepNow

\* C30: cleanupRooms with no options deletes a room without seats that is not
\* finished exactly when its age is at least 30 minutes, and a finished room
\* exactly when its age is at least 60 minutes.
C30_DefaultThresholds ==
    \A k \in DOMAIN rooms :
        LET room == rooms[k] IN
        /\ room.players = << >> /\ room.gameState # "finished" =>
              (Deleted(room, NoOptions) <=> Age(room) >= DefaultEmptyRoomTimeout)
        /\ room.gameState = "finished" =>
              (Deleted(room, NoOptions) <=> Age(room) >= DefaultFinishedGameTimeout)
        /\ ~Deleted(room, NoOptions) => Kept(room, NoOptions)

\* A finished room one minute short of an hour old is the one room left.
C30_Witness ==
    /\ Len(rooms) = 1
    /\ rooms[1].gameState = "finished"
    /\ Age(rooms[1]) = DefaultFinishedGameTimeout - 1

\* ---------------------------------------------------------------------
\* Identity maps (GameSocketHandler.ts 23-24, 99-109, 611-629)
\* ---------------------------------------------------------------------

\* C31: userSockets and socketUsers are mutual inverses in every reachable
\* state: an identity bound to a connection is the identity that connection
\* is bound to, and the other way round, so each identity has at most one
\* connection and an entry is in one map exactly when its match is in the
\* other.
C31_MapsAreInverses ==
    /\ \A u \in Users :
           userSockets[u] # Null => socketUsers[userSockets[u]] = u
    /\ \A s \in Sockets :
           socketUsers[s] # Null => userSockets[socketUsers[s]] = s

\* The seat of identity u is resumed on connection t while connection s,
\* bound to u earlier, is still open.
ResumedBeside(s, t, u) ==
    /\ s # t
    /\ sockets[s] = "open" /\ sockets[t] = "open"
    /\ socketUsers[s] = u /\ socketUsers[t] = u
    /\ userSockets[u] = t
    /\ \E k \in DOMAIN rooms : \E i \in DOMAIN rooms[k].players :
           /\ rooms[k].players[i].userId = u
           /\ rooms[k].players[i].socketId = t

\* C32: when an identity has resumed its seat on a new connection while its
\* previous connection is still open, the disconnect of the previous
\* connection leaves every room as it is (the seat stays, the phase is not
\* reset) and leaves the identity bound to the new connection.
C32_OldDisconnectKeepsSeat ==
    [][\A s, t \in Sockets : \A u \in Users :
         ResumedBeside(s, t, u) /\ Disconnect(s) =>
           /\ rooms' = rooms
           /\ userSockets'[u] = t]_vars

\* ---------------------------------------------------------------------
\* Turn order and game start (GameSocketHandler.ts 357-406, 433-503)
\* ---------------------------------------------------------------------

\* C33: while a room stays in phase playing, accepted shots alternate
\* between the two seats, beginning with the first-joined seat: the room
\* enters playing with the turn on the first seat, a step that records a
\* shot of a seat finds the turn on that seat and leaves it on another seat,
\* and a step that records no shot leaves the turn where it was, so no seat
\* has two shots accepted in a row whatever else happens in between.
C33_ShotsAlternate ==
    [][rooms' # rooms =>
       \A r \in RoomIds :
         hasRoom(rooms, r) /\ hasRoom(rooms', r) =>
           LET before == getRoom(rooms, r)
               after == getRoom(rooms', r)
               shooters == {i \in DOMAIN before.players :
                               /\ i \in DOMAIN after.players
                               /\ Tried(after.players[i]) # Tried(before.players[i])}
           IN /\ ( before.gameState # "playing" /\ after.gameState = "playing" )
                 => after.currentTurn = after.players[1].id
              /\ ( before.gameState = "playing" /\ after.gameState = "playing" )
                 => /\ \A i \in shooters :
                         /\ before.currentTurn = before.players[i].id
                         /\ after.currentTurn # before.players[i].id
                    /\ shooters = {} => after.currentTurn = before.currentTurn]_vars

\* C34: when both seats of a setup room have sent player-ready and both
\* handlers are past their await, the room goes from setup to playing once
\* and one game-started event is sent, whose snapshot is in phase playing:
\* the handler that resumes on a room that is already playing sends no
\* game-started event and leaves the room, its turn included, as it is.
C34_GameStartsOnce ==
    [][\A c \in pendingReady :
         PlayerReadyResume(c) /\ hasRoom(rooms, c.roomId) =>
           LET before == getRoom(rooms, c.roomId)
               after == getRoom(rooms', c.roomId)
           IN /\ readyEvent(c) = gameStartedEvent(after)
                 => /\ after.gameState = "playing"
                    /\ before.gameState = "setup"
              /\ before.gameState = "playing" => after = before]_vars

\* C35: whenever a room enters phase playing, both seats' shot records are
\* empty, neither seat's board carries a mark of an earlier shot, and no
\* ship of either fleet is marked destroyed.
C35_GameStartsClean ==
    [][rooms' # rooms =>
       \A r \in RoomIds :
         ( /\ hasRoom(rooms, r) /\ hasRoom(rooms', r)
           /\ getRoom(rooms, r).gameState # "playing"
           /\ getRoom(rooms', r).gameState = "playing" )
         => \A i \in DOMAIN getRoom(rooms', r).players :
                LET p == getRoom(rooms', r).players[i]
                IN /\ Tried(p) = {}
                   /\ DOMAIN p.board = {}
                   /\ \A j \in DOMAIN p.ships : ~p.ships[j].isDestroyed]_vars

\* C36: in every reachable state a room has no winner unless its phase is
\* finished, and the winner of a finished room is the id of one of the
\* seats the room has.
C36_WinnerOnlyWhenFinished ==
    \A k \in DOMAIN rooms :
        /\ rooms[k].gameState # "finished" => rooms[k].winner = Null
        /\ rooms[k].gameState = "finished" =>
               \E i \in DOMAIN rooms[k].players :
                   rooms[k].winner = rooms[k].players[i].id

\* ---------------------------------------------------------------------
\* Games played to the last cell (part_010 254-334, utils/index.ts 98-124)
\* ---------------------------------------------------------------------

\* The standard fleet with a ship of no cells added; validateShipPlacement
\* accepts it.
BuoyFleet == Append(ValidFleet, NewShip("buoy", 0, << >>))

EndgameFleets == {ValidFleet, BuoyFleet}

\* Every cell of the board, row by row.
AllCells == [k \in 1..(BoardSize * BoardSize) |->
                Pos((k - 1) \div BoardSize, (k - 1) % BoardSize)]

\* A client that works through ShotPlan and then through the rest of the
\* board.
WholeBoard ==
    ShotPlan \o SelectSeq(AllCells,
                          LAMBDA c : \A j \in DOMAIN ShotPlan : ShotPlan[j] # c)

\* Games in which no seat leaves: the two seats are taken, fleets are
\* submitted and player-ready is sent in setup, the player-ready handlers
\* resume before the first shot, and each seat fires at the next untried
\* cell of the whole board on its turn.
NextEndgame ==
    \/ \E s \in GameSockets : Connect(s)
    \/ \E s \in Sockets : Authenticate(s, TRUE)
    \/ \E r \in RoomIds : ~hasRoom(rooms, r) /\ HttpCreateRoom(r)
    \/ \E s \in Sockets, r \in RoomIds : JoinRoom(s, r, SeatId[s])
    \/ \E s \in Sockets, r \in RoomIds, f \in EndgameFleets :
           /\ hasRoom(rooms, r) /\ getRoom(rooms, r).gameState = "setup"
           /\ PlaceShips(s, r, f)
    \/ \E s \in Sockets, r \in RoomIds :
           /\ hasRoom(rooms, r) /\ getRoom(rooms, r).gameState = "setup"
           /\ PlayerReady(s, r)
    \/ \E c \in pendingReady : Unmarked(c.roomId) /\ PlayerReadyResume(c)
    \/ Shoot(WholeBoard)

SpecEndgame == Init /\ [][NextEndgame]_vars

\* C37: a game started with fleets accepted by place-ships terminates: the
\* room is finished no later than the shot with which a seat has fired at
\* every cell of the board, so no seat is on turn in a playing room with no
\* untried cell left.
C37_NeverOutOfCells ==
    \A k \in DOMAIN rooms : \A i \in DOMAIN rooms[k].players :
        ( /\ rooms[k].gameState = "playing"
          /\ rooms[k].currentTurn = rooms[k].players[i].id )
        => \E j \in DOMAIN AllCells : AllCells[j] \notin Tried(rooms[k].players[i])

\* ---------------------------------------------------------------------
\* The sweep a disconnect schedules (GameSocketHandler.ts 634-644)
\* ---------------------------------------------------------------------

\* The lobby: rooms are created over HTTP and nobody takes a seat, while
\* connections come, authenticate and go, each disconnect of an identified
\* connection scheduling its sweep, and the periodic sweep runs as time
\* passes. Every room of this specification is a room that was created and
\* has not been joined.
NextLobby ==
    \/ \E s \in Sockets : Connect(s)
    \/ \E s \in Sockets : Authenticate(s, TRUE)
    \/ \E r \in RoomIds : HttpCreateRoom(r)
    \/ \E s \in Sockets : Disconnect(s)
    \/ CleanupTimerFires
    \/ PeriodicCleanup
    \/ Tick

SpecLobby == Init /\ [][NextLobby]_vars

\* C38: the sweep scheduled by a disconnect never deletes a room that was
\* created and has not been joined before the room is
\* DefaultEmptyRoomTimeout minutes old, so the id returned by a create can
\* still be joined whatever connections disconnect in between.
C38_TimerSweepSparesFreshRooms ==
    [][CleanupTimerFires =>
         \A k \in DOMAIN rooms :
             ( /\ Len(rooms[k].players) = 0
               /\ Age(rooms[k]) < DefaultEmptyRoomTimeout )
             => hasRoom(rooms', rooms[k].id)]_vars

\* ---------------------------------------------------------------------
\* The periodic sweep as time passes (part_012 60-78, part_007 143-188)
\* ---------------------------------------------------------------------

\* Whole games under the clock: rooms are created under ids not in use,
\* seats are taken and given up, the two seats play the standard fleet to the
\* end, time passes and the periodic sweep runs.
NextLive ==
    \/ \E s \in GameSockets : Connect(s)
    \/ \E s \in Sockets : Authenticate(s, TRUE)
    \/ \E r \in RoomIds : ~hasRoom(rooms, r) /\ HttpCreateRoom(r)
    \/ \E s \in Sockets, r \in RoomIds : Unmarked(r) /\ JoinRoom(s, r, SeatId[s])
    \/ \E s \in Sockets, r \in RoomIds : Unmarked(r) /\ LeaveRoom(s, r)
    \/ \E s \in Sockets, r \in RoomIds :
           /\ hasRoom(rooms, r) /\ getRoom(rooms, r).gameState = "setup"
           /\ PlaceShips(s, r, ValidFleet)
    \/ \E s \in Sockets, r \in RoomIds :
           /\ hasRoom(rooms, r) /\ getRoom(rooms, r).gameState = "setup"
           /\ PlayerReady(s, r)
    \/ \E c \in pendingReady : PlayerReadyResume(c)
    \/ Shoot(ShotPlan)
    \/ PeriodicCleanup
    \/ Tick

\* setInterval runs the periodic sweep for as long as the server runs, and
\* the clock it reads goes on.
SpecLive ==
    Init /\ [][NextLive]_vars /\ WF_vars(PeriodicCleanup) /\ WF_vars(Tick)

\* The room is there without seats.
EmptyRoom(r) == hasRoom(rooms, r) /\ Len(getRoom(rooms, r).players) = 0

\* The room is there in phase finished.
FinishedRoom(r) == hasRoom(rooms, r) /\ getRoom(rooms, r).gameState = "finished"

\* The clock of the model can still take the room to the given age.
CanReachAge(r, minutes) ==
    getRoom(rooms, r).createdAt + minutes <= MaxTicks * TickMinutes

\* C39: under a fair periodic sweep and advancing time, a room without seats
\* is eventually deleted unless it gains a seat, and a finished room is
\* eventually deleted unless its phase changes, whether or not it has seats.
C39_SweepIsLive ==
    \A r \in RoomIds :
        /\ (EmptyRoom(r) /\ CanReachAge(r, DefaultEmptyRoomTimeout))
               ~> (~hasRoom(rooms, r) \/ ~EmptyRoom(r))
        /\ (FinishedRoom(r) /\ CanReachAge(r, DefaultFinishedGameTimeout))
               ~> (~hasRoom(rooms, r) \/ ~FinishedRoom(r))

\* A finished room with both seats taken has reached the finished threshold
\* and is there for the periodic sweep to delete.
C39_Witness ==
    \E k \in DOMAIN rooms :
        /\ rooms[k].gameState = "finished"
        /\ Len(rooms[k].players) = 2
        /\ Age(rooms[k]) >= DefaultFinishedGameTimeout
        /\ CanReachAge(rooms[k].id, DefaultFinishedGameTimeout)

\* ---------------------------------------------------------------------
\* The room list (part_007 57-90)
\* ---------------------------------------------------------------------

\* A filters object with every option left out.
NoFilters == [gameState |-> Null, excludeFull |-> FALSE, maxPlayers |-> Absent,
              sortBy |-> Null, sortOrder |-> Null]

\* The value a number or a left-out option has as the condition of an if.
truthy(n) == n # Absent /\ n # 0

\* The comparator getAllRooms hands to sort.
compareRooms(a, b, filters) ==
    IF filters.sortBy = "createdAt"
    THEN IF filters.sortOrder = "asc" THEN a.createdAt - b.createdAt
                                      ELSE b.createdAt - a.createdAt
    ELSE IF filters.sortBy = "playerCount"
    THEN IF filters.sortOrder = "asc" THEN Len(a.players) - Len(b.players)
                                      ELSE Len(b.players) - Len(a.players)
    ELSE 0

\* Array.prototype.sort: stable, rooms the comparator does not tell apart
\* stay in the order they had.
sortRooms(seq, filters) ==
    LET before(j, i) ==
            \/ compareRooms(seq[j], seq[i], filters) < 0
            \/ compareRooms(seq[j], seq[i], filters) = 0 /\ j < i
        rank(i) == Cardinality({j \in DOMAIN seq : before(j, i)}) + 1
    IN [k \in DOMAIN seq |-> seq[CHOOSE i \in DOMAIN seq : rank(i) = k]]

\* GameRoomModel.getAllRooms(filters).
getAllRoomsFiltered(rms, filters) ==
    LET keep(room) ==
            /\ ~(filters.gameState # Null /\ room.gameState # filters.gameState)
            /\ ~(filters.excludeFull /\ Len(room.players) = 2)
            /\ ~(truthy(filters.maxPlayers)
                   /\ Len(room.players) > filters.maxPlayers)
    IN sortRooms(SelectSeq(rms, keep), filters)

\* The filters the list is asked for without a sort key: any phase or none,
\* exclude-full set or not, and no maximum seat count or one of 0, 1, 2.
ListPhases == SweepPhases \cup {Null}

MaxPlayersInputs == {Absent, 0, 1, 2}

ListFilters ==
    {[NoFilters EXCEPT !.gameState = g, !.excludeFull = x, !.maxPlayers = m] :
        g \in ListPhases, x \in BOOLEAN, m \in MaxPlayersInputs}

\* The room satisfies every predicate the filters give.
Satisfies(room, filters) ==
    /\ filters.gameState # Null => room.gameState = filters.gameState
    /\ filters.excludeFull => Len(room.players) < 2
    /\ filters.maxPlayers # Absent => Len(room.players) <= filters.maxPlayers

\* C40: without a sort key, getAllRooms(filters) returns exactly the rooms
\* that satisfy every predicate given in the filters (phase equal to the
\* requested phase, fewer than 2 seats when exclude-full is set, at most m
\* seats when a maximum m >= 0 is given, m = 0 included), in the order in
\* which the registry holds them.
C40_ListReturnsMatchingRooms ==
    \A filters \in ListFilters :
        getAllRoomsFiltered(rooms, filters)
            = SelectSeq(rooms, LAMBDA room : Satisfies(room, filters))

====
